---- MODULE Spec2Model ----
(***************************************************************************)
(* CloudTrail-Log-Parser: the rule evaluator, the field path resolver, the *)
(* batch filter (FilterRecords), the upload pipeline                       *)
(* (processFileWithCachedRules), and the streaming processor               *)
(* (ProcessStream / ProcessBatch).                                         *)
(***************************************************************************)
EXTENDS Integers, Sequences, FiniteSets, TLC

VARIABLES
    evt,        \* the decoded record handed to the evaluator (map[string]any)
    cc,         \* the CachedConfiguration under evaluation
    lastCall    \* the last evaluator call made: its operation, arguments, result

evalVars == <<evt, cc, lastCall>>

VARIABLES
    pc,             \* where processFileWithCachedRules stands
    blob,           \* the Records of the source object, as stored
    inct,           \* the downloaded Cloudtrail document's Records
    outct,          \* outCloudTrail.Records of FilterRecords
    fi, fj,         \* FilterRecords' loop indices i and j (0-based, as in the code)
    recordMapPool,  \* the maps held by the pool
    filterRet,      \* what FilterRecords returned
    gpc,            \* where the encoder goroutine stands
    wLeft,          \* pipe writes the goroutine's current call still has to make
    pipePending,    \* a Write is blocked in the pipe, its bytes not yet read
    pwClosed,       \* the pipe's write end is closed
    ujError,        \* uploadJob.Error
    uploadErr,      \* the error Upload returned ("pending" while it runs)
    joined,         \* how the select on done ended
    doneClosed,     \* the deferred close(done) has run
    ret             \* what processFileWithCachedRules returned

filterVars == <<inct, outct, fi, fj, recordMapPool, filterRet>>
pipeVars == <<gpc, wLeft, pipePending, pwClosed, ujError, uploadErr, joined, doneClosed>>
fileVars == <<pc, blob, filterVars, pipeVars, ret>>

VARIABLES
    doc,            \* the document ProcessStream reads: its records, layout, tail
    sc,             \* the input the scanner has not returned yet
    line, pos,      \* the line in the byte loop, and the loop's position in it
    foundRecords, inRecordsArray, bracketDepth,
    recordBuffer,   \* the bytes accumulated for the current record
    firstRecord,
    output,         \* the bytes written to the writer
    result,         \* the ProcessingResult
    recordErrors,   \* the calls of metrics.RecordError
    emitted,        \* the buffers handed to processRecord, in order
    sCancelled,     \* ctx.Done() is closed
    spc,            \* where ProcessStream stands
    sret            \* the error ProcessStream returned

streamVars == <<doc, sc, line, pos, foundRecords, inRecordsArray, bracketDepth,
                recordBuffer, firstRecord, output, result, recordErrors, emitted,
                sCancelled, spc, sret>>

VARIABLES
    batchInput,     \* input.Records of ProcessBatch
    workers,        \* the batch goroutines
    results, errors,\* the two buffered channels
    chClosed,       \* the waiter has closed both channels
    batchOutput,    \* output.Records
    filteredCount,  \* result.FilteredCount
    bCancelled,     \* ctx.Done() is closed
    bpc,            \* where ProcessBatch stands
    bret            \* the error ProcessBatch returned

batchVars == <<batchInput, workers, results, errors, chClosed, batchOutput,
               filteredCount, bCancelled, bpc, bret>>

VARIABLES
    patterns,       \* regexCache.patterns: pattern text to compiled object
    regexMu,        \* the RWMutex of regexCache
    nextRe,         \* the next *regexp.Regexp that regexp.Compile allocates
    rg,             \* the goroutines in getOrCompileRegex
    returned,       \* the (pattern, object) pairs returned so far
    regexCalls      \* the calls each goroutine has made

regexVars == <<patterns, regexMu, nextRe, rg, returned, regexCalls>>

VARIABLES
    srcCfg,         \* the Configuration handed to Validate and PrepareConfiguration
    validOut,       \* what Validate returned
    prepOut         \* what PrepareConfiguration returned

prepareVars == <<srcCfg, validOut, prepOut>>

VARIABLES
    now,            \* the clock
    ttl,            \* CachedConfigLoader.ttl
    lconfig,        \* CachedConfigLoader.config
    lcachedRules,   \* CachedConfigLoader.cachedRules
    lastLoaded,     \* CachedConfigLoader.lastLoaded
    loaderMu,       \* CachedConfigLoader.mu
    lc,             \* the goroutines in Load and LoadCached
    loadCount,      \* the calls of the underlying loader
    lastOk,         \* the last of them that published a snapshot, and when
    loadCalls       \* the calls each goroutine has made

loaderVars == <<now, ttl, lconfig, lcachedRules, lastLoaded, loaderMu, lc, loadCount,
                lastOk, loadCalls>>

VARIABLES
    rop,            \* the entry point: Do or DoTyped
    ropts,          \* opts, the options of the call
    rcfg,           \* cfg
    rctx,           \* ctx.Err(): "nil" until the context is done
    attempt,        \* attempt
    lastErr,        \* lastErr
    rpc,            \* where the call is in its loop
    rtrace,         \* the call's history: invocations of fn, back-offs, cancellation
    rret            \* what the call returned

retryVars == <<rop, ropts, rcfg, rctx, attempt, lastErr, rpc, rtrace, rret>>

VARIABLES
    args,           \* the arguments of a function called on its own
    retval          \* what it returned

callVars == <<args, retval>>

VARIABLES
    cachedRules,    \* the package variable cachedRules: a snapshot, 0 for nil
    lastConfigLoad, \* the package variable lastConfigLoad
    configMutex,    \* configMutex: the invocation holding the write lock
    clock,          \* time.Now()
    nextSnapshot,   \* the next snapshot PrepareConfiguration allocates
    hd              \* the invocations of Handler

handlerVars == <<cachedRules, lastConfigLoad, configMutex, clock, nextSnapshot, hd>>

VARIABLES
    mapPool,        \* recordMapPool, shared by concurrent FilterRecords calls
    fr              \* the FilterRecords calls

poolVars == <<mapPool, fr>>

VARIABLES
    cwmMetrics,     \* cwm.metrics, the buffer
    nextMetric,     \* the next metric datum to be recorded
    autoStarted,    \* the auto-flush goroutines started by addMetric
    autoPending,    \* those of them that have not called Flush yet
    flushing,       \* the Flush calls between their copy and their return
    taken,          \* for each metric datum, how many Flush calls copied it
    sent,           \* for each metric datum, how many requests carried it
    maxBatch,       \* the longest MetricData of a PutMetricData request so far
    flushCalls,     \* the Flush calls made by the ticker and by handlers
    cwmStop         \* Stop: "running", "stopping" (stopCh closed), "stopped"

metricsVars == <<cwmMetrics, nextMetric, autoStarted, autoPending, flushing, taken, sent,
                 maxBatch, flushCalls, cwmStop>>

VARIABLES
    initEnv,        \* what the cold start meets: AWS config, pre-load, metrics switch
    initOnce,       \* the sync.Once initOnce: fresh, running or done
    ipc,            \* where the goroutine started by init() stands
    bodyDone,       \* the function handed to initOnce.Do by the goroutine has returned
    globals,        \* initError, awsCfg, s3Client, configLoader, cachedRules, cwMetrics
    hpc,            \* where Handler stands in the current invocation
    hsynced,        \* Handler has returned from initOnce.Do at least once
    handled         \* what each finished invocation met and returned

coldVars == <<initEnv, initOnce, ipc, bodyDone, globals, hpc, hsynced, handled>>

VARIABLES
    nKeys,          \* the number of object keys the envelope names
    npc,            \* where the invocation stands in the two retry loops
    nOuter,         \* attempt of the DoTyped loop in Handler
    nInner,         \* attempt of the Do loop in OptimizedCopier.Copy
    nObj,           \* the key Processor.Handler's loop is at
    nErr,           \* the error processor.Handler returned to DoTyped
    nCtx,           \* the invocation's context: live or cancelled
    nAttempts,      \* per key, the calls of CopyWithCachedRules made
    nCopied,        \* per key, the calls of it that returned nil
    nRet            \* what DoTyped returned to Handler

nestVars == <<nKeys, npc, nOuter, nInner, nObj, nErr, nCtx, nAttempts, nCopied, nRet>>

vars == <<evalVars, fileVars, streamVars, batchVars, regexVars, prepareVars, loaderVars,
          retryVars, callVars, handlerVars, poolVars, metricsVars, coldVars, nestVars>>

\* What each part of the program leaves alone.
notEval == <<fileVars, streamVars, batchVars, regexVars, prepareVars, loaderVars,
             retryVars, callVars, handlerVars, poolVars, metricsVars, coldVars, nestVars>>
notFile == <<evt, lastCall, streamVars, batchVars, regexVars, prepareVars, loaderVars,
             retryVars, callVars, handlerVars, poolVars, metricsVars, coldVars, nestVars>>
notStream == <<evt, lastCall, fileVars, batchVars, regexVars, prepareVars, loaderVars,
               retryVars, callVars, handlerVars, poolVars, metricsVars, coldVars,
               nestVars>>
notBatch == <<evt, lastCall, fileVars, streamVars, regexVars, prepareVars, loaderVars,
              retryVars, callVars, handlerVars, poolVars, metricsVars, coldVars,
              nestVars>>
notRegex == <<evt, cc, lastCall, fileVars, streamVars, batchVars, prepareVars,
              loaderVars, retryVars, callVars, handlerVars, poolVars, metricsVars,
              coldVars, nestVars>>
notPrepare == <<evt, cc, lastCall, fileVars, streamVars, batchVars, loaderVars,
                retryVars, callVars, handlerVars, poolVars, metricsVars, coldVars,
                nestVars>>
notLoader == <<evt, cc, lastCall, fileVars, streamVars, batchVars, prepareVars,
               retryVars, callVars, handlerVars, poolVars, metricsVars, coldVars,
               nestVars>>
notRetry == <<evt, cc, lastCall, fileVars, streamVars, batchVars, regexVars, prepareVars,
              loaderVars, callVars, handlerVars, poolVars, metricsVars, coldVars,
              nestVars>>
notCall == <<evt, cc, lastCall, fileVars, streamVars, batchVars, regexVars, prepareVars,
             loaderVars, retryVars, handlerVars, poolVars, metricsVars, coldVars,
             nestVars>>
notHandler == <<evt, cc, lastCall, fileVars, streamVars, batchVars, regexVars,
                prepareVars, loaderVars, retryVars, callVars, poolVars, metricsVars,
                coldVars, nestVars>>
notPool == <<evt, cc, lastCall, fileVars, streamVars, batchVars, regexVars, prepareVars,
             loaderVars, retryVars, callVars, handlerVars, metricsVars, coldVars,
             nestVars>>
notMetrics == <<evt, cc, lastCall, fileVars, streamVars, batchVars, regexVars,
                prepareVars, loaderVars, retryVars, callVars, handlerVars, poolVars,
                coldVars, nestVars>>
notCold == <<evt, cc, lastCall, fileVars, streamVars, batchVars, regexVars, prepareVars,
             loaderVars, retryVars, callVars, handlerVars, poolVars, metricsVars,
             nestVars>>
notNest == <<evt, cc, lastCall, fileVars, streamVars, batchVars, regexVars, prepareVars,
             loaderVars, retryVars, callVars, handlerVars, poolVars, metricsVars,
             coldVars>>

(***************************************************************************)
(* Decoded JSON values (what json.Unmarshal puts into a map[string]any).   *)
(* A value is tagged with its Go dynamic type; JSON null decodes to nil.   *)
(***************************************************************************)
JString(s) == [kind |-> "string", v |-> s]
JNumber(n) == [kind |-> "number", v |-> n]
JBool(b)   == [kind |-> "bool", v |-> b]
JArray(a)  == [kind |-> "array", v |-> a]
JMap(m)    == [kind |-> "map", v |-> m]
Nil        == [kind |-> "nil", v |-> "nil"]

EmptyMap == [k \in {} |-> Nil]

(***************************************************************************)
(* strings.Split(field, "."): a field name is a sequence of runs, each     *)
(* either the separator "." or a piece of text holding no separator.       *)
(***************************************************************************)
RECURSIVE SplitFrom(_, _, _)
SplitFrom(field, cur, i) ==
    IF i > Len(field) THEN <<cur>>
    ELSE IF field[i] = "." THEN <<cur>> \o SplitFrom(field, "", i + 1)
    ELSE SplitFrom(field, cur \o field[i], i + 1)

Split(field) == SplitFrom(field, "", 1)

NotFound == [exists |-> FALSE, val |-> Nil]

\* The resolver with the slip of IsFieldPresent: the first non-map value met
\* is returned, whether or not the path is used up.
RECURSIVE findFieldFirstScalar(_, _)
findFieldFirstScalar(obj, path) ==
    IF Len(path) = 0 THEN NotFound
    ELSE LET field == Head(path) IN
         IF field \notin DOMAIN obj THEN NotFound
         ELSE LET val == obj[field] IN
              IF val.kind = "map" THEN findFieldFirstScalar(val.v, Tail(path))
              ELSE [exists |-> TRUE, val |-> val]

RECURSIVE findField(_, _)
findField(obj, path) ==
    IF Len(path) = 0 THEN NotFound
    ELSE LET field == Head(path) IN
         IF field \notin DOMAIN obj THEN NotFound
         ELSE LET val == obj[field] IN
              IF val.kind = "map" THEN findField(val.v, Tail(path))
              ELSE IF Len(path) = 1 THEN [exists |-> TRUE, val |-> val]
              ELSE NotFound

FieldExists(field, event) == findField(event, Split(field))

(***************************************************************************)
(* regexp.Regexp.MatchString for the patterns of the model: an unanchored  *)
(* search of the pattern in the string.                                    *)
(***************************************************************************)
KmsSource == "kms.amazonaws.com"
Ec2Source == "ec2.amazonaws.com"

Patterns == {".*", "kms.*", "ec2.*"}

MatchString(pattern, s) ==
    CASE pattern = ".*"    -> TRUE
      [] pattern = "kms.*" -> s \in {KmsSource}
      [] pattern = "ec2.*" -> s \in {Ec2Source}
      [] OTHER             -> FALSE

(***************************************************************************)
(* CachedRule.Eval and CachedConfiguration.EvalRules.                      *)
(***************************************************************************)
\* The match loop with the non-string case of the uncached Rule.Eval: a
\* present non-string value is skipped instead of failing the rule.
RECURSIVE EvalMatchesSkipNonString(_, _, _)
EvalMatchesSkipNonString(matches, event, k) ==
    IF k > Len(matches) THEN TRUE
    ELSE LET fe == FieldExists(matches[k].FieldName, event) IN
         IF fe.exists
         THEN IF fe.val.kind # "string"
              THEN EvalMatchesSkipNonString(matches, event, k + 1)
              ELSE IF MatchString(matches[k].Pattern, fe.val.v)
                   THEN EvalMatchesSkipNonString(matches, event, k + 1)
                   ELSE FALSE
         ELSE FALSE

\* allMatch after the loop over cr.Matches, entered at entry k with allMatch
\* still true (every break leaves with allMatch false).
RECURSIVE EvalMatches(_, _, _)
EvalMatches(matches, event, k) ==
    IF k > Len(matches) THEN TRUE
    ELSE LET fe == FieldExists(matches[k].FieldName, event) IN
         IF fe.exists
         THEN IF fe.val.kind # "string"
              THEN FALSE
              ELSE IF MatchString(matches[k].Pattern, fe.val.v)
                   THEN EvalMatches(matches, event, k + 1)
                   ELSE FALSE
         ELSE FALSE

Eval(cr, event) ==
    LET allMatch == EvalMatches(cr.Matches, event, 1) IN
    [match     |-> allMatch,
     dropEvent |-> [RuleName |-> IF allMatch THEN cr.Name ELSE ""],
     err       |-> "nil"]

\* The rule loop without its early return: the last matching rule wins.
RECURSIVE EvalRulesNoEarlyExit(_, _, _, _)
EvalRulesNoEarlyExit(rules, event, i, evals) ==
    IF i > Len(rules)
    THEN [match |-> FALSE, dropEvent |-> Nil, err |-> "nil", evals |-> evals]
    ELSE LET r    == Eval(rules[i], event)
             rest == EvalRulesNoEarlyExit(rules, event, i + 1, Append(evals, i))
         IN IF r.err # "nil"
            THEN [match |-> FALSE, dropEvent |-> Nil, err |-> r.err,
                  evals |-> Append(evals, i)]
            ELSE IF r.match /\ ~rest.match
                 THEN [match |-> TRUE, dropEvent |-> r.dropEvent, err |-> "nil",
                       evals |-> rest.evals]
                 ELSE rest

\* The loop of EvalRules from rule i on; evals lists the rules (by index) on
\* which Eval has been called.
RECURSIVE EvalRulesFrom(_, _, _, _)
EvalRulesFrom(rules, event, i, evals) ==
    IF i > Len(rules)
    THEN [match |-> FALSE, dropEvent |-> Nil, err |-> "nil", evals |-> evals]
    ELSE LET r == Eval(rules[i], event) IN
         IF r.err # "nil"
         THEN [match |-> FALSE, dropEvent |-> Nil, err |-> r.err,
               evals |-> Append(evals, i)]
         ELSE IF r.match
              THEN [match |-> TRUE, dropEvent |-> r.dropEvent, err |-> "nil",
                    evals |-> Append(evals, i)]
              ELSE EvalRulesFrom(rules, event, i + 1, Append(evals, i))

EvalRules(config, event) == EvalRulesFrom(config.Rules, event, 1, <<>>)

(***************************************************************************)
(* The inputs of the evaluator: records and compiled rule sets.            *)
(***************************************************************************)
MaxRules == 2

Keys == {"eventSource", "userIdentity"}

MapsOver(vals) == UNION {[D -> vals] : D \in SUBSET Keys}

Leaves ==
    {JString(KmsSource), JString(Ec2Source), JNumber("1"), JBool("true"), Nil,
     JArray(<<JString(KmsSource)>>)}

InnerLeaves == {JString(KmsSource), JNumber("1"), Nil}

InnerMaps == {JMap(m) : m \in MapsOver(InnerLeaves)}

DeepMaps ==
    {JMap("userIdentity" :> JMap("eventSource" :> JString(KmsSource))),
     JMap("userIdentity" :> JMap("userIdentity" :> JMap(EmptyMap)))}

Events == MapsOver(Leaves \cup InnerMaps \cup DeepMaps)

\* Field paths, as their segments; the field name joins them with ".".
Paths ==
    {<<"eventSource">>, <<"userIdentity">>,
     <<"userIdentity", "eventSource">>,
     <<"eventSource", "userIdentity">>,
     <<"userIdentity", "userIdentity", "eventSource">>,
     <<"userIdentity", "", "eventSource">>}

RECURSIVE Join(_)
Join(segs) ==
    IF Len(segs) = 0 THEN <<>>
    ELSE IF Len(segs) = 1 THEN <<segs[1]>>
    ELSE <<segs[1], ".">> \o Join(Tail(segs))

CachedMatch(segs, pattern) == [FieldName |-> Join(segs), Pattern |-> pattern]

RuleSamples ==
    {[Name |-> "check_kms",
      Matches |-> <<CachedMatch(<<"eventSource">>, "kms.*")>>],
     [Name |-> "check_nested",
      Matches |-> <<CachedMatch(<<"eventSource">>, ".*"),
                    CachedMatch(<<"userIdentity", "eventSource">>, "kms.*")>>],
     [Name |-> "check_any",
      Matches |-> <<CachedMatch(<<"userIdentity">>, ".*")>>]}

RuleSeqs == UNION {[1..n -> RuleSamples] : n \in 0..MaxRules}

\* Rule names are unique within a configuration.
Configs ==
    {[Rules |-> rs] : rs \in
        {s \in RuleSeqs : \A i, j \in 1..Len(s) : s[i].Name = s[j].Name => i = j}}

NoCall == [op |-> "none"]

(***************************************************************************)
(* The evaluator applied to every record and rule set of the bounds.       *)
(***************************************************************************)
CallFieldExists ==
    /\ lastCall = NoCall
    /\ \E segs \in Paths :
          lastCall' = [op |-> "FieldExists", segs |-> segs,
                       out |-> FieldExists(Join(segs), evt)]
    /\ UNCHANGED <<evt, cc, notEval>>

CallEval ==
    /\ lastCall = NoCall
    /\ \E i \in 1..Len(cc.Rules) :
          lastCall' = [op |-> "Eval", rule |-> i, out |-> Eval(cc.Rules[i], evt)]
    /\ UNCHANGED <<evt, cc, notEval>>

CallEvalRules ==
    /\ lastCall = NoCall
    /\ lastCall' = [op |-> "EvalRules", out |-> EvalRules(cc, evt)]
    /\ UNCHANGED <<evt, cc, notEval>>

(***************************************************************************)
(* JSON text.  A record's bytes are a sequence of lexical pieces: the      *)
(* structural characters, the quote, white space, and runs of other text.  *)
(***************************************************************************)
Quote == "\""

Str(s) == <<Quote, s, Quote>>

Member(k, val) == Str(k) \o <<":">> \o val

IsSpace(b) == b \in {" ", "\n"}

NumberTexts == {"1"}

ParseFail == [ok |-> FALSE, val |-> Nil, next |-> 0]

RECURSIVE SkipSpace(_, _)
SkipSpace(data, i) ==
    IF i <= Len(data) /\ IsSpace(data[i]) THEN SkipSpace(data, i + 1) ELSE i

\* The text of a string literal whose opening quote is before position i.
RECURSIVE ScanString(_, _, _)
ScanString(data, i, acc) ==
    IF i > Len(data) \/ data[i] = "\n" THEN ParseFail
    ELSE IF data[i] = Quote THEN [ok |-> TRUE, val |-> acc, next |-> i + 1]
    ELSE ScanString(data, i + 1, acc \o data[i])

RECURSIVE ParseValue(_, _)
RECURSIVE ParseMembers(_, _, _)
RECURSIVE ParseElements(_, _, _)

ParseValue(data, i0) ==
    LET i == SkipSpace(data, i0) IN
    IF i > Len(data) THEN ParseFail
    ELSE CASE data[i] = "{" ->
                 LET j == SkipSpace(data, i + 1) IN
                 IF j <= Len(data) /\ data[j] = "}"
                 THEN [ok |-> TRUE, val |-> JMap(EmptyMap), next |-> j + 1]
                 ELSE ParseMembers(data, j, EmptyMap)
           [] data[i] = "[" ->
                 LET j == SkipSpace(data, i + 1) IN
                 IF j <= Len(data) /\ data[j] = "]"
                 THEN [ok |-> TRUE, val |-> JArray(<<>>), next |-> j + 1]
                 ELSE ParseElements(data, j, <<>>)
           [] data[i] = Quote ->
                 LET s == ScanString(data, i + 1, "") IN
                 IF s.ok THEN [ok |-> TRUE, val |-> JString(s.val), next |-> s.next]
                 ELSE ParseFail
           [] data[i] = "null" -> [ok |-> TRUE, val |-> Nil, next |-> i + 1]
           [] data[i] = "true" -> [ok |-> TRUE, val |-> JBool("true"), next |-> i + 1]
           [] data[i] \in NumberTexts ->
                 [ok |-> TRUE, val |-> JNumber(data[i]), next |-> i + 1]
           [] OTHER -> ParseFail

\* The members of an object from position i (a key) on; m holds the members
\* read so far, a repeated key keeping its last value.
ParseMembers(data, i, m) ==
    IF i > Len(data) \/ data[i] # Quote THEN ParseFail
    ELSE LET k == ScanString(data, i + 1, "") IN
         IF ~k.ok THEN ParseFail
         ELSE LET c == SkipSpace(data, k.next) IN
              IF c > Len(data) \/ data[c] # ":" THEN ParseFail
              ELSE LET val == ParseValue(data, c + 1) IN
                   IF ~val.ok THEN ParseFail
                   ELSE LET e  == SkipSpace(data, val.next)
                            m2 == (k.val :> val.val) @@ m
                        IN IF e > Len(data) THEN ParseFail
                           ELSE IF data[e] = "}"
                                THEN [ok |-> TRUE, val |-> JMap(m2), next |-> e + 1]
                                ELSE IF data[e] = ","
                                     THEN ParseMembers(data, SkipSpace(data, e + 1), m2)
                                     ELSE ParseFail

ParseElements(data, i, a) ==
    LET val == ParseValue(data, i) IN
    IF ~val.ok THEN ParseFail
    ELSE LET e  == SkipSpace(data, val.next)
             a2 == Append(a, val.val)
         IN IF e > Len(data) THEN ParseFail
            ELSE IF data[e] = "]"
                 THEN [ok |-> TRUE, val |-> JArray(a2), next |-> e + 1]
                 ELSE IF data[e] = ","
                      THEN ParseElements(data, e + 1, a2)
                      ELSE ParseFail

\* json.Unmarshal(data, &rec) for rec a map[string]any: the members of the
\* object are stored into the map rec already is, over what it holds; null
\* sets the map to nil; any other value, and text that is no JSON value, is an
\* error.
Unmarshal(data, rec) ==
    LET p == ParseValue(data, 1) IN
    IF ~p.ok \/ SkipSpace(data, p.next) <= Len(data)
    THEN [err |-> "syntax error", rec |-> rec]
    ELSE IF p.val.kind = "map" THEN [err |-> "nil", rec |-> p.val.v @@ rec]
    ELSE IF p.val.kind = "nil" THEN [err |-> "nil", rec |-> EmptyMap]
    ELSE [err |-> "cannot unmarshal into map", rec |-> rec]

(***************************************************************************)
(* The records of the source objects, each with the decoded view its       *)
(* bytes stand for ("none" when the bytes are no JSON object).             *)
(***************************************************************************)
MaxRecords == 3

\* The source processes batches of 100 records (batchSize); the model scales
\* the batch down so that an input of MaxRecords records spans batches.
batchSize == 2

RecKms ==
    [bytes |-> <<"{">> \o Member("eventSource", Str(KmsSource)) \o <<"}">>,
     view  |-> JMap("eventSource" :> JString(KmsSource))]

RecEc2Spaced ==
    [bytes |-> <<"{", " ">> \o Str("eventSource") \o <<" ", ":", " ">>
               \o Str(Ec2Source) \o <<" ", "}">>,
     view  |-> JMap("eventSource" :> JString(Ec2Source))]

RecNested ==
    [bytes |-> <<"{">>
               \o Member("userIdentity",
                         <<"{">> \o Member("eventSource", Str(KmsSource)) \o <<"}">>)
               \o <<",">> \o Member("eventSource", <<"1">>) \o <<"}">>,
     view  |-> JMap("userIdentity" :> JMap("eventSource" :> JString(KmsSource))
                    @@ "eventSource" :> JNumber("1"))]

RecArray ==
    [bytes |-> <<"[">> \o Str(KmsSource) \o <<"]">>,
     view  |-> [kind |-> "none", v |-> "none"]]

RecordSamples == {RecKms, RecEc2Spaced, RecNested, RecArray}

ViewOf(bytes) == (CHOOSE r \in RecordSamples : r.bytes = bytes).view

InputBlobs ==
    UNION {[1..n -> {r.bytes : r \in RecordSamples}] : n \in 0..MaxRecords}

FileConfigs ==
    {[Rules |-> <<>>],
     [Rules |-> << [Name |-> "check_kms",
                    Matches |-> <<CachedMatch(<<"eventSource">>, "kms.*")>>] >>],
     [Rules |-> << [Name |-> "check_nested",
                    Matches |-> <<CachedMatch(<<"eventSource">>, ".*"),
                                  CachedMatch(<<"userIdentity", "eventSource">>,
                                              "kms.*")>>],
                   [Name |-> "check_ec2",
                    Matches |-> <<CachedMatch(<<"eventSource">>, "ec2.*")>>] >>]}

(***************************************************************************)
(* FilterRecords.                                                          *)
(***************************************************************************)
Min(a, b) == IF a < b THEN a ELSE b

\* The end of a batch taken one record short.
BatchEndShort(i, n) == Min(i + batchSize - 1, n)

\* end := min(i+batchSize, len(inct.Records))
BatchEnd(i, n) == Min(i + batchSize, n)

\* The map put back as it is.
ClearMapSkipped(rec) == rec

\* for k := range rec { delete(rec, k) }
ClearMap(rec) == EmptyMap

NoReturn == [ct |-> "none", Records |-> <<>>, err |-> "none"]

FilterBegin ==
    /\ pc = "filter"
    /\ outct' = <<>>
    /\ fi' = 0
    /\ fj' = 0
    /\ pc' = "loop"
    /\ UNCHANGED <<blob, inct, recordMapPool, filterRet, pipeVars, ret, cc, notFile>>

\* One pass of the inner loop: take a map from the pool, decode the record
\* into it, evaluate, keep or drop, clear the map and put it back.
FilterRecord ==
    /\ pc = "loop"
    /\ fi < Len(inct)
    /\ fj < BatchEnd(fi, Len(inct))
    /\ \E got \in recordMapPool \cup {EmptyMap} :
          LET raw == inct[fj + 1]
              u   == Unmarshal(raw, got)
              e   == EvalRules(cc, u.rec)
          IN /\ recordMapPool' = (recordMapPool \ {got}) \cup {ClearMap(u.rec)}
             /\ IF u.err # "nil"
                THEN /\ filterRet' = [ct |-> "nil", Records |-> <<>>,
                                      err |-> "unmarshal record failed"]
                     /\ ret' = "failed to filter records"
                     /\ pc' = "done"
                     /\ UNCHANGED <<outct, fj>>
                ELSE IF e.err # "nil"
                THEN /\ filterRet' = [ct |-> "nil", Records |-> <<>>, err |-> e.err]
                     /\ ret' = "failed to filter records"
                     /\ pc' = "done"
                     /\ UNCHANGED <<outct, fj>>
                ELSE /\ outct' = IF e.match THEN outct
                                 ELSE Append(outct, raw)
                     /\ fj' = fj + 1
                     /\ UNCHANGED <<filterRet, ret, pc>>
    /\ UNCHANGED <<blob, inct, fi, pipeVars, cc, notFile>>

\* The inner loop is over: i += batchSize, and the next batch starts at j = i.
FilterNextBatch ==
    /\ pc = "loop"
    /\ fi < Len(inct)
    /\ fj >= BatchEnd(fi, Len(inct))
    /\ fi' = fi + batchSize
    /\ fj' = fi + batchSize
    /\ UNCHANGED <<pc, blob, inct, outct, recordMapPool, filterRet, pipeVars, ret,
                   cc, notFile>>

FilterReturn ==
    /\ pc = "loop"
    /\ fi >= Len(inct)
    /\ filterRet' = [ct |-> "ok", Records |-> outct, err |-> "nil"]
    /\ pc' = "pipe"
    /\ UNCHANGED <<blob, inct, outct, fi, fj, recordMapPool, pipeVars, ret, cc,
                   notFile>>

(***************************************************************************)
(* processFileWithCachedRules and the encoder goroutine (UploadJob.Start). *)
(***************************************************************************)
MaxChunks == 2

\* downloadMethod(ctx, bucket, key): the decoded document, or an error.
Download ==
    /\ pc = "download"
    /\ \/ /\ inct' = blob
          /\ pc' = "filter"
          /\ UNCHANGED ret
       \/ /\ ret' = "failed to download and decode source JSON file"
          /\ pc' = "done"
          /\ UNCHANGED inct
    /\ UNCHANGED <<blob, outct, fi, fj, recordMapPool, filterRet, pipeVars, cc,
                   notFile>>

\* io.Pipe(), make(chan struct{}), and the go statement.
StartEncoder ==
    /\ pc = "pipe"
    /\ gpc' = "start"
    /\ pc' = "upload"
    /\ UNCHANGED <<blob, filterVars, wLeft, pipePending, pwClosed, ujError,
                   uploadErr, joined, doneClosed, ret, cc, notFile>>

\* encoder.Encode(out) writes the compressed stream into the pipe, in one or
\* more Writes; or it fails before writing anything.
GoEncode ==
    /\ gpc = "start"
    /\ \/ /\ \E n \in 1..MaxChunks : wLeft' = n
          /\ gpc' = "encode"
          /\ UNCHANGED ujError
       \/ /\ ujError' = "encode error"
          /\ wLeft' = 1
          /\ gpc' = "gzclose"
    /\ UNCHANGED <<pc, blob, filterVars, pipePending, pwClosed, uploadErr, joined,
                   doneClosed, ret, cc, notFile>>

\* A Write on the pipe: it blocks until the reader has taken its bytes.
GoWrite ==
    /\ gpc \in {"encode", "gzclose"}
    /\ wLeft > 0
    /\ ~pipePending
    /\ pipePending' = TRUE
    /\ UNCHANGED <<pc, blob, filterVars, gpc, wLeft, pwClosed, ujError, uploadErr,
                   joined, doneClosed, ret, cc, notFile>>

\* uj.Error = encoder.Encode(out), every Write of it having returned.
GoEncoded ==
    /\ gpc = "encode"
    /\ wLeft = 0
    /\ ujError' = "nil"
    /\ wLeft' = 1
    /\ gpc' = "gzclose"
    /\ UNCHANGED <<pc, blob, filterVars, pipePending, pwClosed, uploadErr, joined,
                   doneClosed, ret, cc, notFile>>

\* _ = gw.Close(); _ = pwr.Close(): the trailer is written, then the write
\* end is closed and Start returns.
GoClose ==
    /\ gpc = "gzclose"
    /\ wLeft = 0
    /\ pwClosed' = TRUE
    /\ gpc' = "send"
    /\ UNCHANGED <<pc, blob, filterVars, wLeft, pipePending, ujError, uploadErr,
                   joined, doneClosed, ret, cc, notFile>>

\* A panic inside Start, recovered by the deferred function: the goroutine
\* ends without closing the write end and without sending on done.
GoPanic ==
    /\ gpc \in {"start", "encode", "gzclose"}
    /\ ~pipePending
    /\ ujError' = "upload goroutine panic"
    /\ gpc' = "exit"
    /\ UNCHANGED <<pc, blob, filterVars, wLeft, pipePending, pwClosed, uploadErr,
                   joined, doneClosed, ret, cc, notFile>>

\* done <- struct{}{} after the deferred close(done) has run: the send
\* panics, and the deferred function recovers it.
GoSendOnClosed ==
    /\ gpc = "send"
    /\ doneClosed
    /\ ujError' = "upload goroutine panic"
    /\ gpc' = "exit"
    /\ UNCHANGED <<pc, blob, filterVars, wLeft, pipePending, pwClosed, uploadErr,
                   joined, doneClosed, ret, cc, notFile>>

\* Upload reads the body: the bytes of the blocked Write are taken and the
\* Write returns.
UploadRead ==
    /\ pc = "upload"
    /\ pipePending
    /\ pipePending' = FALSE
    /\ wLeft' = wLeft - 1
    /\ UNCHANGED <<pc, blob, filterVars, gpc, pwClosed, ujError, uploadErr, joined,
                   doneClosed, ret, cc, notFile>>

\* Upload reads end of file from the pipe and returns without error.
UploadDone ==
    /\ pc = "upload"
    /\ pwClosed
    /\ ~pipePending
    /\ uploadErr' = "nil"
    /\ pc' = "select"
    /\ UNCHANGED <<blob, filterVars, gpc, wLeft, pipePending, pwClosed, ujError,
                   joined, doneClosed, ret, cc, notFile>>

\* Upload returns an error (a failed request, a cancelled context), however
\* much of the body it has read.
UploadFail ==
    /\ pc = "upload"
    /\ uploadErr' = "upload failed"
    /\ pc' = "select"
    /\ UNCHANGED <<blob, filterVars, gpc, wLeft, pipePending, pwClosed, ujError,
                   joined, doneClosed, ret, cc, notFile>>

\* The result once done has been received, with uploadJob.Error left unread.
ResultIgnoringJob(err, jobErr) ==
    IF err # "nil" THEN "failed to upload file to output bucket" ELSE "nil"

\* The checks after the select: the upload's error, then uploadJob.Error.
Result(err, jobErr) ==
    IF err # "nil" THEN "failed to upload file to output bucket"
    ELSE IF jobErr # "nil" THEN "failed to complete upload job"
    ELSE "nil"

\* The receive with no sender waited for.
AwaitDoneUnguarded ==
    /\ pc = "select"
    /\ gpc' = IF gpc = "send" THEN "exit" ELSE gpc
    /\ joined' = "done"
    /\ pc' = "check"
    /\ UNCHANGED <<blob, filterVars, wLeft, pipePending, pwClosed, ujError,
                   uploadErr, doneClosed, ret, cc, notFile>>

\* case <-done: the goroutine's send and the receive meet.
AwaitDone ==
    /\ pc = "select"
    /\ gpc = "send"
    /\ gpc' = "exit"
    /\ joined' = "done"
    /\ pc' = "check"
    /\ UNCHANGED <<blob, filterVars, wLeft, pipePending, pwClosed, ujError,
                   uploadErr, doneClosed, ret, cc, notFile>>

\* case <-time.After(30 * time.Second): the function returns, and the
\* deferred close(done) runs.
AwaitTimeout ==
    /\ pc = "select"
    /\ joined' = "timeout"
    /\ ret' = "upload goroutine timeout"
    /\ doneClosed' = TRUE
    /\ pc' = "done"
    /\ UNCHANGED <<blob, filterVars, gpc, wLeft, pipePending, pwClosed, ujError,
                   uploadErr, cc, notFile>>

Return ==
    /\ pc = "check"
    /\ ret' = Result(uploadErr, ujError)
    /\ doneClosed' = TRUE
    /\ pc' = "done"
    /\ UNCHANGED <<blob, filterVars, gpc, wLeft, pipePending, pwClosed, ujError,
                   uploadErr, joined, cc, notFile>>
(***************************************************************************)
(* StreamingProcessor.ProcessStream: the documents it reads.               *)
(***************************************************************************)
MaxStreamRecords == 2

StreamKms == <<"{">> \o Member("eventSource", Str(KmsSource)) \o <<"}">>

\* Arrays and objects nested in a record's value.
StreamDeep ==
    <<"{">>
    \o Member("eventSource",
              <<"[", "[", "{">> \o Member("userIdentity", <<"[", "]">>)
              \o <<"}", "]", ",", "1", "]">>)
    \o <<"}">>

\* A record broken over two lines.
StreamTwoLines ==
    <<"{">> \o Str("eventSource") \o <<":", "\n">> \o Str(Ec2Source) \o <<"}">>

\* A closing brace inside a string literal.
StreamBraceInString ==
    <<"{">> \o Member("eventSource", <<Quote, "}", Quote>>) \o <<"}">>

\* An object that is no JSON: a member with no value.
StreamMalformed == <<"{">> \o Str("eventSource") \o <<":", "}">>

StreamSamples ==
    {StreamKms, StreamDeep, StreamTwoLines, StreamBraceInString, StreamMalformed}

StreamRecordSeqs == UNION {[1..n -> StreamSamples] : n \in 0..MaxStreamRecords}

RecordsKey == <<Quote, "Records", Quote>>

RECURSIVE JoinWith(_, _)
JoinWith(rs, sep) ==
    IF Len(rs) = 0 THEN <<>>
    ELSE IF Len(rs) = 1 THEN rs[1]
    ELSE rs[1] \o sep \o JoinWith(Tail(rs), sep)

\* What follows the array's closing bracket: nothing, a further member on the
\* same line, or a further member on a later line.
TailMember == <<",">> \o Member("next", <<"{">> \o Member("eventSource", Str(Ec2Source)) \o <<"}">>)

TailBytes(tail) ==
    CASE tail = "none"  -> <<>>
      [] tail = "same"  -> TailMember
      [] tail = "later" -> <<"\n">> \o TailMember

Layouts == {"oneline", "perline"}
Tails == {"none", "same", "later"}

DocBytes(d) ==
    CASE d.layout = "oneline" ->
             <<"{">> \o RecordsKey \o <<":", "[">> \o JoinWith(d.records, <<",">>)
             \o <<"]">> \o TailBytes(d.tail) \o <<"}">>
      [] d.layout = "perline" ->
             <<"{">> \o RecordsKey \o <<":", "[", "\n">>
             \o JoinWith(d.records, <<",", "\n">>)
             \o <<"\n", "]">> \o TailBytes(d.tail) \o <<"}", "\n">>
      [] d.layout = "keyline" ->
             <<"{", "\n">> \o RecordsKey \o <<":", "[">>
             \o JoinWith(d.records, <<",">>)
             \o <<"]", "\n">> \o TailBytes(d.tail) \o <<"}">>
      [] d.layout = "latebracket" ->
             <<"{">> \o RecordsKey \o <<":", "\n", "[">>
             \o JoinWith(d.records, <<",">>)
             \o <<"]">> \o TailBytes(d.tail) \o <<"}">>

Docs ==
    [records : StreamRecordSeqs, layout : Layouts, tail : Tails]

\* Well-formed documents whose records hold no brace in a string literal, in
\* every way of breaking them into lines: all on one line, a record per line
\* (a record may itself span lines), the key on a line after the document's
\* opening brace, and the array's opening bracket on a line after the key.
WellFormedSamples == {StreamKms, StreamDeep, StreamTwoLines}

LineLayouts == {"oneline", "perline", "keyline", "latebracket"}

LayoutDocs ==
    [records : UNION {[1..n -> WellFormedSamples] : n \in 0..MaxStreamRecords},
     layout : LineLayouts, tail : {"none"}]

StreamConfig ==
    [Rules |-> << [Name |-> "check_kms",
                   Matches |-> <<CachedMatch(<<"eventSource">>, "kms.*")>>] >>]

(***************************************************************************)
(* bufio.Scanner with the default ScanLines, and the bytes helpers.        *)
(***************************************************************************)
RECURSIVE IndexOf(_, _, _)
IndexOf(data, b, i) ==
    IF i > Len(data) THEN 0
    ELSE IF data[i] = b THEN i
    ELSE IndexOf(data, b, i + 1)

\* scanner.Scan(): the bytes up to the next line feed, which is dropped.
NextLine(data) ==
    LET nl == IndexOf(data, "\n", 1) IN
    IF nl = 0 THEN [line |-> data, rest |-> <<>>]
    ELSE [line |-> SubSeq(data, 1, nl - 1), rest |-> SubSeq(data, nl + 1, Len(data))]

\* len(bytes.TrimSpace(line)) == 0
IsBlank(l) == \A i \in 1..Len(l) : IsSpace(l[i])

\* bytes.Contains(line, []byte(`"Records"`))
ContainsRecordsKey(l) ==
    \E i \in 1..(Len(l) - Len(RecordsKey) + 1) :
        SubSeq(l, i, i + Len(RecordsKey) - 1) = RecordsKey

(***************************************************************************)
(* processRecord and shouldFilterRecord.                                   *)
(***************************************************************************)
\* shouldFilterRecord once json.Unmarshal has returned u.
shouldFilterDecoded(u) ==
    IF u.err # "nil" THEN [filter |-> FALSE, err |-> "failed to unmarshal record"]
    ELSE LET e == EvalRules(cc, u.rec) IN
         IF e.err # "nil" THEN [filter |-> FALSE, err |-> "failed to evaluate rules"]
         ELSE [filter |-> e.match, err |-> "nil"]

shouldFilterRecord(recordJSON) == shouldFilterDecoded(Unmarshal(recordJSON, EmptyMap))

\* json.Unmarshal into a fresh map, worked out once for each record of the
\* source objects.
UnmarshalFresh ==
    [b \in {r.bytes : r \in RecordSamples} |-> Unmarshal(b, EmptyMap)]

\* What the writer does with the Writes of one processRecord call: whether
\* the Write of the separator and the Write of the record succeed.  A Write
\* that fails is taken to have written nothing.
WriteOutcomes == [sep : BOOLEAN, rec : BOOLEAN]

\* processRecord on the state st = [result, output, firstRecord] with the
\* writer behaving as wr: the state it leaves and the error it returns.
processRecord(recordJSON, st, wr) ==
    LET counted == [st.result EXCEPT !.ProcessedCount = @ + 1]
        f       == shouldFilterRecord(recordJSON)
        sepOut  == IF st.firstRecord THEN st.output ELSE st.output \o <<",">>
    IN IF f.err # "nil"
       THEN [result |-> counted, output |-> st.output,
             firstRecord |-> st.firstRecord, err |-> f.err]
       ELSE IF f.filter
       THEN [result |-> [counted EXCEPT !.FilteredCount = @ + 1],
             output |-> st.output, firstRecord |-> st.firstRecord, err |-> "nil"]
       ELSE IF ~st.firstRecord /\ ~wr.sep
       THEN [result |-> counted, output |-> st.output,
             firstRecord |-> st.firstRecord, err |-> "failed to write separator"]
       ELSE IF ~wr.rec
       THEN [result |-> counted, output |-> sepOut,
             firstRecord |-> st.firstRecord, err |-> "failed to write record"]
       ELSE [result |-> counted, output |-> sepOut \o recordJSON,
             firstRecord |-> FALSE, err |-> "nil"]

(***************************************************************************)
(* ProcessStream.                                                          *)
(***************************************************************************)
\* The closing bracket taken as the array's end whatever the depth.
EndsArrayAtAnyDepth(b, depth) == b = "]"

\* case ']': if bracketDepth == 0
EndsArray(b, depth) == b = "]" /\ depth = 0

\* The bytes that open and close the output.
Header == <<"{">> \o RecordsKey \o <<":", "[">>
Footer == <<"]", "}">>

\* writer.Write([]byte(`{"Records":[`)), which succeeds or fails.
StreamStart ==
    /\ spc = "start"
    /\ \/ /\ output' = Header
          /\ spc' = "scan"
          /\ UNCHANGED sret
       \/ /\ sret' = "failed to write output header"
          /\ spc' = "done"
          /\ UNCHANGED output
    /\ UNCHANGED <<doc, sc, line, pos, foundRecords, inRecordsArray, bracketDepth,
                   recordBuffer, firstRecord, result, recordErrors, emitted,
                   sCancelled, cc, notStream>>

\* scanner.Scan() returns a line; the statements before the byte loop.
StreamScanLine ==
    /\ spc = "scan"
    /\ sc # <<>>
    /\ LET nx    == NextLine(sc)
           l     == nx.line
           found == foundRecords \/ ContainsRecordsKey(l)
           idx   == IndexOf(l, "[", 1)
           opens == ~foundRecords /\ ContainsRecordsKey(l) /\ idx > 0
       IN /\ sc' = nx.rest
          /\ IF IsBlank(l)
             THEN UNCHANGED <<foundRecords, inRecordsArray, line, pos, spc>>
             ELSE /\ foundRecords' = found
                  /\ inRecordsArray' = (inRecordsArray \/ opens)
                  /\ IF inRecordsArray \/ opens
                     THEN /\ line' = IF opens THEN SubSeq(l, idx + 1, Len(l)) ELSE l
                          /\ pos' = 1
                          /\ spc' = "bytes"
                     ELSE UNCHANGED <<line, pos, spc>>
    /\ UNCHANGED <<doc, bracketDepth, recordBuffer, firstRecord, output, result, sret,
                   recordErrors, emitted, sCancelled, cc, notStream>>

\* One pass of the loop over the line's bytes.
StreamByte ==
    /\ spc = "bytes"
    /\ pos <= Len(line)
    /\ pos' = pos + 1
    /\ LET b == line[pos] IN
       IF b = "{"
       THEN /\ recordBuffer' = Append(IF bracketDepth = 0 THEN <<>> ELSE recordBuffer, b)
            /\ bracketDepth' = bracketDepth + 1
            /\ UNCHANGED <<inRecordsArray, firstRecord, output, result, recordErrors,
                           emitted>>
       ELSE IF b = "}"
       THEN LET buf == Append(recordBuffer, b) IN
            /\ bracketDepth' = bracketDepth - 1
            /\ IF bracketDepth - 1 = 0 /\ Len(buf) > 0
               THEN \E wr \in WriteOutcomes :
                    LET r == processRecord(buf, [result |-> result, output |-> output,
                                                 firstRecord |-> firstRecord], wr)
                    IN /\ result' = r.result
                       /\ output' = r.output
                       /\ firstRecord' = r.firstRecord
                       /\ recordErrors' = recordErrors + (IF r.err # "nil" THEN 1 ELSE 0)
                       /\ emitted' = Append(emitted, buf)
                       /\ recordBuffer' = <<>>
               ELSE /\ recordBuffer' = buf
                    /\ UNCHANGED <<firstRecord, output, result, recordErrors, emitted>>
            /\ UNCHANGED inRecordsArray
       ELSE IF b = "]"
       THEN /\ IF EndsArray(b, bracketDepth)
               THEN /\ inRecordsArray' = FALSE
                    /\ UNCHANGED recordBuffer
               ELSE /\ recordBuffer' = Append(recordBuffer, b)
                    /\ UNCHANGED inRecordsArray
            /\ UNCHANGED <<bracketDepth, firstRecord, output, result, recordErrors,
                           emitted>>
       ELSE /\ recordBuffer' = IF bracketDepth > 0 THEN Append(recordBuffer, b)
                               ELSE recordBuffer
            /\ UNCHANGED <<inRecordsArray, bracketDepth, firstRecord, output, result,
                           recordErrors, emitted>>
    /\ UNCHANGED <<doc, sc, line, foundRecords, spc, sret, sCancelled, cc, notStream>>

\* The line's bytes are done: the select on ctx.Done().
StreamEndLine ==
    /\ spc = "bytes"
    /\ pos > Len(line)
    /\ IF sCancelled
       THEN /\ sret' = "context canceled"
            /\ spc' = "done"
       ELSE /\ spc' = "scan"
            /\ UNCHANGED sret
    /\ UNCHANGED <<doc, sc, line, pos, foundRecords, inRecordsArray, bracketDepth,
                   recordBuffer, firstRecord, output, result, recordErrors, emitted,
                   sCancelled, cc, notStream>>

\* scanner.Scan() returns false at the end of the input: the footer is
\* written, or its Write fails, and ProcessStream returns.
StreamFinish ==
    /\ spc = "scan"
    /\ sc = <<>>
    /\ \/ /\ output' = output \o Footer
          /\ sret' = "nil"
       \/ /\ sret' = "failed to write output footer"
          /\ UNCHANGED output
    /\ spc' = "done"
    /\ UNCHANGED <<doc, sc, line, pos, foundRecords, inRecordsArray, bracketDepth,
                   recordBuffer, firstRecord, result, recordErrors, emitted,
                   sCancelled, cc, notStream>>

\* scanner.Scan() returns false on a read error or a line over the 10 MiB
\* limit: scanner.Err() is returned.
StreamScanError ==
    /\ spc = "scan"
    /\ sret' = "scanner error"
    /\ spc' = "done"
    /\ UNCHANGED <<doc, sc, line, pos, foundRecords, inRecordsArray, bracketDepth,
                   recordBuffer, firstRecord, output, result, recordErrors, emitted,
                   sCancelled, cc, notStream>>

\* The caller cancels the context.
StreamCancel ==
    /\ spc \in {"scan", "bytes"}
    /\ ~sCancelled
    /\ sCancelled' = TRUE
    /\ UNCHANGED <<doc, sc, line, pos, foundRecords, inRecordsArray, bracketDepth,
                   recordBuffer, firstRecord, output, result, spc, sret, recordErrors,
                   emitted, cc, notStream>>

(***************************************************************************)
(* StreamingProcessor.ProcessBatch.                                        *)
(***************************************************************************)
\* numBatches := (len(input.Records) + batchSize - 1) / batchSize
numBatches(n) == (n + batchSize - 1) \div batchSize

\* The goroutine of batch k as the loop starts it: its range [start, end),
\* its loop index j, and its batchResult.
BatchWorker(k, n) ==
    [start |-> (k - 1) * batchSize,
     end |-> Min((k - 1) * batchSize + batchSize, n),
     j |-> (k - 1) * batchSize,
     records |-> <<>>,
     filtered |-> 0,
     at |-> "run"]

\* make(chan batchResult, numBatches), make(chan error, numBatches): a send
\* on a channel holding that many values waits.
ChanCap == numBatches(Len(batchInput))

\* The loop that starts one goroutine per batch, and the waiter goroutine.
BatchSpawn ==
    /\ bpc = "start"
    /\ workers' = [k \in 1..numBatches(Len(batchInput)) |->
                      BatchWorker(k, Len(batchInput))]
    /\ bpc' = "collect"
    /\ UNCHANGED <<batchInput, results, errors, chClosed, batchOutput, filteredCount,
                   bCancelled, bret, cc, notBatch>>

\* One pass of a batch goroutine's loop over its records.
BatchWorkerStep(k) ==
    /\ bpc # "start"
    /\ k \in DOMAIN workers
    /\ workers[k].at = "run"
    /\ workers[k].j < workers[k].end
    /\ LET w   == workers[k]
           raw == batchInput[w.j + 1]
           f   == shouldFilterDecoded(UnmarshalFresh[raw])
       IN IF bCancelled
          THEN /\ Len(errors) < ChanCap
               /\ errors' = Append(errors, "context canceled")
               /\ workers' = [workers EXCEPT ![k].at = "done"]
          ELSE IF f.err # "nil"
          THEN /\ Len(errors) < ChanCap
               /\ errors' = Append(errors, f.err)
               /\ workers' = [workers EXCEPT ![k].at = "done"]
          ELSE /\ workers' = [workers EXCEPT
                                 ![k].j = @ + 1,
                                 ![k].filtered = IF f.filter THEN @ + 1 ELSE @,
                                 ![k].records = IF f.filter THEN @ ELSE Append(@, raw)]
               /\ UNCHANGED errors
    /\ UNCHANGED <<batchInput, results, chClosed, batchOutput, filteredCount,
                   bCancelled, bpc, bret, cc, notBatch>>

\* results <- batch, then the deferred wg.Done().
BatchWorkerSend(k) ==
    /\ bpc # "start"
    /\ k \in DOMAIN workers
    /\ workers[k].at = "run"
    /\ workers[k].j >= workers[k].end
    /\ Len(results) < ChanCap
    /\ results' = Append(results, [records |-> workers[k].records,
                                   filtered |-> workers[k].filtered])
    /\ workers' = [workers EXCEPT ![k].at = "done"]
    /\ UNCHANGED <<batchInput, errors, chClosed, batchOutput, filteredCount,
                   bCancelled, bpc, bret, cc, notBatch>>

\* The waiter closing the channels with no wg.Wait().
BatchWaiterCloseWithoutWait ==
    /\ bpc # "start"
    /\ ~chClosed
    /\ chClosed' = TRUE
    /\ UNCHANGED <<batchInput, workers, results, errors, batchOutput, filteredCount,
                   bCancelled, bpc, bret, cc, notBatch>>

\* The waiter: wg.Wait() returns, the two channels are closed.
BatchWaiterClose ==
    /\ bpc # "start"
    /\ ~chClosed
    /\ \A k \in DOMAIN workers : workers[k].at = "done"
    /\ chClosed' = TRUE
    /\ UNCHANGED <<batchInput, workers, results, errors, batchOutput, filteredCount,
                   bCancelled, bpc, bret, cc, notBatch>>

\* for batch := range results: one batch received and appended.
BatchCollect ==
    /\ bpc = "collect"
    /\ results # <<>>
    /\ batchOutput' = batchOutput \o Head(results).records
    /\ filteredCount' = filteredCount + Head(results).filtered
    /\ results' = Tail(results)
    /\ UNCHANGED <<batchInput, workers, errors, chClosed, bCancelled, bpc, bret, cc,
                   notBatch>>

\* The range over results ends on the closed, drained channel; the range over
\* errors returns the first error, if any, with no output.
BatchReturn ==
    /\ bpc = "collect"
    /\ results = <<>>
    /\ chClosed
    /\ IF errors # <<>>
       THEN /\ bret' = Head(errors)
            /\ batchOutput' = <<>>
       ELSE /\ bret' = "nil"
            /\ UNCHANGED batchOutput
    /\ bpc' = "done"
    /\ UNCHANGED <<batchInput, workers, results, errors, chClosed, filteredCount,
                   bCancelled, cc, notBatch>>

\* The caller cancels the context.
BatchCancel ==
    /\ bpc \in {"start", "collect"}
    /\ ~bCancelled
    /\ bCancelled' = TRUE
    /\ UNCHANGED <<batchInput, workers, results, errors, chClosed, batchOutput,
                   filteredCount, bpc, bret, cc, notBatch>>

(***************************************************************************)
(* regexp.Compile and the regex screen of the validator, for the pattern   *)
(* texts of the model.                                                     *)
(***************************************************************************)
Unbalanced == "("
NestedQuantifier == "(.*)+"

\* s repeated n times
RECURSIVE Repeat(_, _)
Repeat(s, n) ==
    IF n = 0 THEN ""
    ELSE IF n % 2 = 0 THEN Repeat(s \o s, n \div 2)
    ELSE s \o Repeat(s, n - 1)

\* A pattern of 1001 bytes.
Overlong == Repeat("a", 1001)

RegexTexts == Patterns \cup {Unbalanced, NestedQuantifier, Overlong}

\* Byte i of the pattern is inside a bracket expression: a "[" before it with
\* no "]" in between.
InBracket(pattern, i) ==
    \E k \in 1..(i - 1) :
        /\ SubSeq(pattern, k, k) = "["
        /\ \A m \in (k + 1)..(i - 1) : SubSeq(pattern, m, m) # "]"

\* regexp.Compile(pattern) returns no error.  Of the syntax, the model's
\* texts put to the test the pairing of parentheses and brackets: every ")"
\* closes a "(" before it, none is left open, and the last "[" is closed.
Compiles(pattern) ==
    LET opening == {i \in 1..Len(pattern) :
                       SubSeq(pattern, i, i) = "(" /\ ~InBracket(pattern, i)}
        closing == {i \in 1..Len(pattern) :
                       SubSeq(pattern, i, i) = ")" /\ ~InBracket(pattern, i)}
    IN  /\ ~InBracket(pattern, Len(pattern) + 1)
        /\ Cardinality(opening) = Cardinality(closing)
        /\ \A n \in closing :
               Cardinality({i \in opening : i < n}) >= Cardinality({i \in closing : i <= n})

\* The bytes of the classes: \d is [0-9], \w is [0-9A-Za-z_].
Lower == {"a", "b", "c", "d", "e", "f", "g", "h", "i", "j", "k", "l", "m",
          "n", "o", "p", "q", "r", "s", "t", "u", "v", "w", "x", "y", "z"}
Upper == {"A", "B", "C", "D", "E", "F", "G", "H", "I", "J", "K", "L", "M",
          "N", "O", "P", "Q", "R", "S", "T", "U", "V", "W", "X", "Y", "Z"}
Digits == {"0", "1", "2", "3", "4", "5", "6", "7", "8", "9"}
Letters == Lower \cup Upper
WordBytes == Letters \cup Digits \cup {"_"}

\* dangerousPatterns: each is a regular expression, written as the sequence
\* of its atoms.  An escaped punctuation byte, and each of [ ^ / outside an
\* escape, matches itself; \w matches a word byte and \d a digit.
dangerousPatterns ==
    << <<"(", ".", "*", ")", "+">>,
       <<"(", ".", "+", ")", "+">>,
       <<"(", "\\w", "+", ")", "*", "\\w", "*">>,
       <<"(", "\\d", "+", ")", "+">>,
       <<"(", ".", "*", ")", "*">>,
       <<"(", "[", "^", "/", "]", "+", ")", "+", "/">> >>

\* One atom of a dangerous pattern against one byte.
AtomMatches(atom, c) ==
    IF atom = "\\w" THEN c \in WordBytes
    ELSE IF atom = "\\d" THEN c \in Digits
    ELSE c = atom

\* regexp.MatchString(dangerous, pattern): a match anywhere in the pattern.
MatchDangerous(dangerous, pattern) ==
    \E i \in 0..(Len(pattern) - Len(dangerous)) :
        \A j \in 1..Len(dangerous) :
            AtomMatches(dangerous[j], SubSeq(pattern, i + j, i + j))

\* containsReDoSPattern
containsReDoSPattern(pattern) ==
    \E k \in 1..Len(dangerousPatterns) : MatchDangerous(dangerousPatterns[k], pattern)

\* len(pattern), for the limit of 1000
PatternLen(pattern) == Len(pattern)

\* ValidateIsRegex
ValidateIsRegex(pattern) ==
    IF containsReDoSPattern(pattern) THEN FALSE
    ELSE IF PatternLen(pattern) > 1000 THEN FALSE
    ELSE Compiles(pattern)

(***************************************************************************)
(* getOrCompileRegex, run by concurrent goroutines.                        *)
(***************************************************************************)
MaxRegexCalls == 2
RegexCallers == {"g1", "g2"}

RegexCallerIdle == [pc |-> "idle", pattern |-> "", re |-> 0, err |-> "none"]

\* regexCache.RLock()
RegexRLock(g) ==
    /\ rg[g].pc = "call"
    /\ regexMu.writer = "none"
    /\ regexMu' = [regexMu EXCEPT !.readers = @ \cup {g}]
    /\ rg' = [rg EXCEPT ![g].pc = "rlocked"]
    /\ UNCHANGED <<patterns, nextRe, returned, regexCalls, notRegex>>

\* The first lookup and regexCache.RUnlock(): a hit returns the entry.
RegexRead(g) ==
    /\ rg[g].pc = "rlocked"
    /\ regexMu' = [regexMu EXCEPT !.readers = @ \ {g}]
    /\ IF rg[g].pattern \in DOMAIN patterns
       THEN /\ rg' = [rg EXCEPT ![g].pc = "idle", ![g].re = patterns[rg[g].pattern],
                                ![g].err = "nil"]
            /\ returned' = returned \cup {<<rg[g].pattern, patterns[rg[g].pattern]>>}
       ELSE /\ rg' = [rg EXCEPT ![g].pc = "miss"]
            /\ UNCHANGED returned
    /\ UNCHANGED <<patterns, nextRe, regexCalls, notRegex>>

\* regexCache.Lock()
RegexLock(g) ==
    /\ rg[g].pc = "miss"
    /\ regexMu.writer = "none"
    /\ regexMu.readers = {}
    /\ regexMu' = [regexMu EXCEPT !.writer = g]
    /\ rg' = [rg EXCEPT ![g].pc = "locked"]
    /\ UNCHANGED <<patterns, nextRe, returned, regexCalls, notRegex>>

\* The second lookup left out: the holder of the lock always compiles.
RegexStoreWithoutRecheck(g) ==
    /\ rg[g].pc = "locked"
    /\ regexMu' = [regexMu EXCEPT !.writer = "none"]
    /\ IF ~Compiles(rg[g].pattern)
       THEN /\ rg' = [rg EXCEPT ![g].pc = "idle", ![g].re = 0,
                                ![g].err = "error parsing regexp"]
            /\ UNCHANGED <<patterns, nextRe, returned>>
       ELSE /\ patterns' = [p \in DOMAIN patterns \cup {rg[g].pattern} |->
                               IF p = rg[g].pattern THEN nextRe ELSE patterns[p]]
            /\ nextRe' = nextRe + 1
            /\ rg' = [rg EXCEPT ![g].pc = "idle", ![g].re = nextRe, ![g].err = "nil"]
            /\ returned' = returned \cup {<<rg[g].pattern, nextRe>>}
    /\ UNCHANGED <<regexCalls, notRegex>>

\* Under the write lock: the second lookup, regexp.Compile, the store, and
\* the deferred regexCache.Unlock().
RegexStore(g) ==
    /\ rg[g].pc = "locked"
    /\ regexMu' = [regexMu EXCEPT !.writer = "none"]
    /\ IF rg[g].pattern \in DOMAIN patterns
       THEN /\ rg' = [rg EXCEPT ![g].pc = "idle", ![g].re = patterns[rg[g].pattern],
                                ![g].err = "nil"]
            /\ returned' = returned \cup {<<rg[g].pattern, patterns[rg[g].pattern]>>}
            /\ UNCHANGED <<patterns, nextRe>>
       ELSE IF ~Compiles(rg[g].pattern)
       THEN /\ rg' = [rg EXCEPT ![g].pc = "idle", ![g].re = 0,
                                ![g].err = "error parsing regexp"]
            /\ UNCHANGED <<patterns, nextRe, returned>>
       ELSE /\ patterns' = [p \in DOMAIN patterns \cup {rg[g].pattern} |->
                               IF p = rg[g].pattern THEN nextRe ELSE patterns[p]]
            /\ nextRe' = nextRe + 1
            /\ rg' = [rg EXCEPT ![g].pc = "idle", ![g].re = nextRe, ![g].err = "nil"]
            /\ returned' = returned \cup {<<rg[g].pattern, nextRe>>}
    /\ UNCHANGED <<regexCalls, notRegex>>

\* A goroutine calls getOrCompileRegex(pattern).
RegexCall(g) ==
    /\ rg[g].pc = "idle"
    /\ regexCalls[g] < MaxRegexCalls
    /\ \E p \in {"kms.*", ".*", Unbalanced} :
          rg' = [rg EXCEPT ![g] = [pc |-> "call", pattern |-> p, re |-> 0,
                                   err |-> "none"]]
    /\ regexCalls' = [regexCalls EXCEPT ![g] = @ + 1]
    /\ UNCHANGED <<patterns, regexMu, nextRe, returned, notRegex>>

(***************************************************************************)
(* Configuration.Validate and PrepareConfiguration.                        *)
(***************************************************************************)
Match(segs, regex) == [FieldName |-> Join(segs), Regex |-> regex]

\* Rules as a configuration file gives them, valid and not.
SourceRules ==
    {[Name |-> "check_kms", Matches |-> <<Match(<<"eventSource">>, "kms.*")>>],
     [Name |-> "check_nested",
      Matches |-> <<Match(<<"eventSource">>, ".*"),
                    Match(<<"userIdentity", "eventSource">>, "kms.*")>>],
     [Name |-> "check_none", Matches |-> <<>>],
     [Name |-> "bad_regex", Matches |-> <<Match(<<"eventSource">>, Unbalanced)>>],
     [Name |-> "redos", Matches |-> <<Match(<<"eventSource">>, NestedQuantifier)>>],
     [Name |-> "overlong", Matches |-> <<Match(<<"eventSource">>, Overlong)>>],
     [Name |-> "", Matches |-> <<Match(<<"eventSource">>, ".*")>>],
     [Name |-> "no_field", Matches |-> <<Match(<<>>, ".*")>>]}

SourceConfigs ==
    {[Rules |-> rs] : rs \in UNION {[1..n -> SourceRules] : n \in 0..MaxRules}}

\* validate.Struct(cr) with the tags of Configuration, Rule and Match: every
\* rule has a name, every match a field name and a regex that ValidateIsRegex
\* accepts.  The lists are present (not nil), possibly empty.
Validate(cfg) ==
    IF \A i \in 1..Len(cfg.Rules) :
          /\ cfg.Rules[i].Name # ""
          /\ \A j \in 1..Len(cfg.Rules[i].Matches) :
                /\ cfg.Rules[i].Matches[j].FieldName # <<>>
                /\ ValidateIsRegex(cfg.Rules[i].Matches[j].Regex)
    THEN "nil"
    ELSE "validation failed"

\* getOrCompileRegex run by one goroutine alone, on the cache st =
\* [patterns, nextRe].
getOrCompileRegex(pattern, st) ==
    IF pattern \in DOMAIN st.patterns
    THEN [re |-> st.patterns[pattern], err |-> "nil", st |-> st]
    ELSE IF ~Compiles(pattern)
    THEN [re |-> 0, err |-> "error parsing regexp", st |-> st]
    ELSE [re |-> st.nextRe, err |-> "nil",
          st |-> [patterns |-> [p \in DOMAIN st.patterns \cup {pattern} |->
                                   IF p = pattern THEN st.nextRe ELSE st.patterns[p]],
                  nextRe |-> st.nextRe + 1]]

\* The loop over rule.Matches from index j, with the matches compiled so far.
RECURSIVE PrepareMatches(_, _, _, _)
PrepareMatches(matches, j, done, st) ==
    IF j > Len(matches) THEN [Matches |-> done, err |-> "nil", st |-> st]
    ELSE LET c == getOrCompileRegex(matches[j].Regex, st) IN
         IF c.err # "nil"
         THEN [Matches |-> done, err |-> "failed to compile regex", st |-> c.st]
         ELSE PrepareMatches(matches, j + 1,
                             Append(done, [FieldName |-> matches[j].FieldName,
                                           Pattern |-> matches[j].Regex]),
                             c.st)

\* The loop over cfg.Rules that leaves out a rule with no matches.
RECURSIVE PrepareRulesSkippingEmpty(_, _, _, _)
PrepareRulesSkippingEmpty(rules, i, done, st) ==
    IF i > Len(rules) THEN [cfg |-> [Rules |-> done], err |-> "nil", st |-> st]
    ELSE LET m == PrepareMatches(rules[i].Matches, 1, <<>>, st) IN
         IF m.err # "nil" THEN [cfg |-> Nil, err |-> m.err, st |-> m.st]
         ELSE PrepareRulesSkippingEmpty(
                  rules, i + 1,
                  IF m.Matches = <<>> THEN done
                  ELSE Append(done, [Name |-> rules[i].Name, Matches |-> m.Matches]),
                  m.st)

\* The loop over cfg.Rules from index i, with the rules compiled so far.
RECURSIVE PrepareRules(_, _, _, _)
PrepareRules(rules, i, done, st) ==
    IF i > Len(rules) THEN [cfg |-> [Rules |-> done], err |-> "nil", st |-> st]
    ELSE LET m == PrepareMatches(rules[i].Matches, 1, <<>>, st) IN
         IF m.err # "nil" THEN [cfg |-> Nil, err |-> m.err, st |-> m.st]
         ELSE PrepareRules(rules, i + 1,
                           Append(done, [Name |-> rules[i].Name, Matches |-> m.Matches]),
                           m.st)

PrepareConfiguration(cfg, st) == PrepareRules(cfg.Rules, 1, <<>>, st)

(***************************************************************************)
(* Rule.Eval and Configuration.EvalRules: the evaluator that compiles each *)
(* regex when it evaluates the match.                                      *)
(***************************************************************************)
\* The loop over mc.Matches from entry k on, with b as it stands.
RECURSIVE RuleEvalMatches(_, _, _, _)
RuleEvalMatches(matches, event, k, b) ==
    IF k > Len(matches) THEN [b |-> b, err |-> "nil"]
    ELSE LET fe == FieldExists(matches[k].FieldName, event) IN
         IF fe.exists
         THEN IF fe.val.kind # "string"
              THEN RuleEvalMatches(matches, event, k + 1, b)
              ELSE IF ~Compiles(matches[k].Regex)
                   THEN [b |-> FALSE, err |-> "invalid regex"]
                   ELSE RuleEvalMatches(matches, event, k + 1,
                                        b /\ MatchString(matches[k].Regex, fe.val.v))
         ELSE RuleEvalMatches(matches, event, k + 1, FALSE)

RuleEval(mc, event) ==
    LET r == RuleEvalMatches(mc.Matches, event, 1, TRUE) IN
    [match     |-> r.b,
     dropEvent |-> [RuleName |-> IF r.b /\ r.err = "nil" THEN mc.Name ELSE ""],
     err       |-> r.err]

\* The loop of Configuration.EvalRules from rule i on.
RECURSIVE ConfigurationEvalRulesFrom(_, _, _)
ConfigurationEvalRulesFrom(rules, event, i) ==
    IF i > Len(rules) THEN [match |-> FALSE, dropEvent |-> Nil, err |-> "nil"]
    ELSE LET r == RuleEval(rules[i], event) IN
         IF r.err # "nil" THEN [match |-> FALSE, dropEvent |-> Nil, err |-> r.err]
         ELSE IF r.match
              THEN [match |-> TRUE, dropEvent |-> r.dropEvent, err |-> "nil"]
              ELSE ConfigurationEvalRulesFrom(rules, event, i + 1)

ConfigurationEvalRules(cr, event) == ConfigurationEvalRulesFrom(cr.Rules, event, 1)

\* Rule sets whose regexes all compile, as the configuration file gives them.
CompilingRules ==
    {[Name |-> "check_kms", Matches |-> <<Match(<<"eventSource">>, "kms.*")>>],
     [Name |-> "check_nested",
      Matches |-> <<Match(<<"eventSource">>, ".*"),
                    Match(<<"userIdentity", "eventSource">>, "kms.*")>>],
     [Name |-> "check_any", Matches |-> <<Match(<<"userIdentity">>, ".*")>>],
     [Name |-> "check_none", Matches |-> <<>>]}

CompilingConfigs ==
    {[Rules |-> rs] : rs \in UNION {[1..n -> CompilingRules] : n \in 0..MaxRules}}

EmptyRegexCache == [patterns |-> <<>>, nextRe |-> 1]

\* cfg.EvalRules(evt)
CallConfigurationEvalRules ==
    /\ ~retval.called
    /\ LET r == ConfigurationEvalRules(args.cfg, args.evt)
       IN retval' = [called |-> TRUE, op |-> "Configuration.EvalRules",
                     match |-> r.match, dropEvent |-> r.dropEvent, err |-> r.err]
    /\ UNCHANGED <<args, notCall>>

\* PrepareConfiguration(cfg), then EvalRules(evt) on what it returns
CallCachedConfigurationEvalRules ==
    /\ ~retval.called
    /\ LET p == PrepareConfiguration(args.cfg, EmptyRegexCache)
           r == EvalRules(p.cfg, args.evt)
       IN /\ p.err = "nil"
          /\ retval' = [called |-> TRUE, op |-> "CachedConfiguration.EvalRules",
                        match |-> r.match, dropEvent |-> r.dropEvent, err |-> r.err]
    /\ UNCHANGED <<args, notCall>>


NotCalled == [err |-> "none"]

\* cfg.Validate()
CallValidate ==
    /\ validOut = "none"
    /\ validOut' = Validate(srcCfg)
    /\ UNCHANGED <<srcCfg, prepOut, regexVars, notPrepare>>

\* PrepareConfiguration(cfg), on the regex cache as it stands.
CallPrepareConfiguration ==
    /\ prepOut = NotCalled
    /\ LET r == PrepareConfiguration(srcCfg, [patterns |-> patterns, nextRe |-> nextRe])
       IN /\ prepOut' = [cfg |-> r.cfg, err |-> r.err]
          /\ patterns' = r.st.patterns
          /\ nextRe' = r.st.nextRe
    /\ UNCHANGED <<srcCfg, validOut, regexMu, rg, returned, regexCalls, notPrepare>>

(***************************************************************************)
(* CachedConfigLoader: Load and LoadCached, called by concurrent           *)
(* goroutines, over an underlying loader and a clock.                      *)
(***************************************************************************)
MaxTime == 3
MaxLoadCalls == 2
Ttls == {0, 1, 2}
LoadCallers == {"c1", "c2"}

\* What the underlying loader may return on success: a configuration that
\* compiles and one that does not.
LoaderConfigs ==
    {[Rules |-> << [Name |-> "check_nested",
                    Matches |-> <<Match(<<"eventSource">>, ".*"),
                                  Match(<<"userIdentity", "eventSource">>, "kms.*")>>] >>],
     [Rules |-> << [Name |-> "bad_regex",
                    Matches |-> <<Match(<<"eventSource">>, Unbalanced)>>] >>]}

LoadErrors == {"loader error", "context canceled"}

\* A goroutine outside a call; config and rules name the objects its last
\* call returned (0 for nil).
LoadCallerIdle ==
    [pc |-> "idle", op |-> "none", config |-> 0, rules |-> 0, err |-> "none"]

\* l.config != nil && time.Since(l.lastLoaded) < l.ttl
Fresh == lconfig # Nil /\ now - lastLoaded < ttl

\* A goroutine calls Load or LoadCached.
LoadCall(c) ==
    /\ lc[c].pc = "idle"
    /\ loadCalls[c] < MaxLoadCalls
    /\ \E op \in {"Load", "LoadCached"} :
          lc' = [lc EXCEPT ![c] = [LoadCallerIdle EXCEPT !.pc = "call", !.op = op]]
    /\ loadCalls' = [loadCalls EXCEPT ![c] = @ + 1]
    /\ UNCHANGED <<now, ttl, lconfig, lcachedRules, lastLoaded, loaderMu, loadCount,
                   lastOk, regexVars, notLoader>>

\* l.mu.RLock()
LoadRLock(c) ==
    /\ lc[c].pc = "call"
    /\ loaderMu.writer = "none"
    /\ loaderMu' = [loaderMu EXCEPT !.readers = @ \cup {c}]
    /\ lc' = [lc EXCEPT ![c].pc = "rlocked"]
    /\ UNCHANGED <<now, ttl, lconfig, lcachedRules, lastLoaded, loadCount, lastOk,
                   loadCalls, regexVars, notLoader>>

\* Load has returned (config id, err) to its caller: Load's caller has its
\* result, LoadCached returns the error or goes on to read the compiled rules.
LoadReturned(c, id, err) ==
    IF lc[c].op = "Load" \/ err # "nil"
    THEN lc' = [lc EXCEPT ![c].pc = "idle", ![c].config = id, ![c].err = err]
    ELSE lc' = [lc EXCEPT ![c].pc = "loaded", ![c].config = id]

\* The check under the read lock and l.mu.RUnlock(): a fresh snapshot is
\* returned.
LoadFast(c) ==
    /\ lc[c].pc = "rlocked"
    /\ loaderMu' = [loaderMu EXCEPT !.readers = @ \ {c}]
    /\ IF Fresh
       THEN LoadReturned(c, lconfig.id, "nil")
       ELSE lc' = [lc EXCEPT ![c].pc = "slow"]
    /\ UNCHANGED <<now, ttl, lconfig, lcachedRules, lastLoaded, loadCount, lastOk,
                   loadCalls, regexVars, notLoader>>

\* l.mu.Lock()
LoadLock(c) ==
    /\ lc[c].pc = "slow"
    /\ loaderMu.writer = "none"
    /\ loaderMu.readers = {}
    /\ loaderMu' = [loaderMu EXCEPT !.writer = c]
    /\ lc' = [lc EXCEPT ![c].pc = "locked"]
    /\ UNCHANGED <<now, ttl, lconfig, lcachedRules, lastLoaded, loadCount, lastOk,
                   loadCalls, regexVars, notLoader>>

\* The check under the write lock left out: the holder always loads.
LoadWithoutRecheck(c) ==
    /\ lc[c].pc = "locked"
    /\ lc' = [lc EXCEPT ![c].pc = "loading"]
    /\ loadCount' = loadCount + 1
    /\ UNCHANGED <<now, ttl, lconfig, lcachedRules, lastLoaded, loaderMu, lastOk,
                   loadCalls, regexVars, notLoader>>

\* The second check, under the write lock: a fresh snapshot is returned and
\* the lock released, otherwise l.loader.Load(ctx) is called.
LoadRecheck(c) ==
    /\ lc[c].pc = "locked"
    /\ IF Fresh
       THEN /\ loaderMu' = [loaderMu EXCEPT !.writer = "none"]
            /\ LoadReturned(c, lconfig.id, "nil")
            /\ UNCHANGED loadCount
       ELSE /\ lc' = [lc EXCEPT ![c].pc = "loading"]
            /\ loadCount' = loadCount + 1
            /\ UNCHANGED loaderMu
    /\ UNCHANGED <<now, ttl, lconfig, lcachedRules, lastLoaded, lastOk, loadCalls,
                   regexVars, notLoader>>

\* A failed refresh that drops the snapshot it could not replace.
LoadFailClearing(c) ==
    /\ lc[c].pc = "loading"
    /\ \E e \in LoadErrors : LoadReturned(c, 0, e)
    /\ lconfig' = Nil
    /\ lcachedRules' = Nil
    /\ loaderMu' = [loaderMu EXCEPT !.writer = "none"]
    /\ UNCHANGED <<now, ttl, lastLoaded, loadCount, lastOk, loadCalls, regexVars,
                   notLoader>>

\* l.loader.Load(ctx) returns an error (the context's, when it was
\* cancelled): Load returns it and releases the lock.
LoadFail(c) ==
    /\ lc[c].pc = "loading"
    /\ \E e \in LoadErrors : LoadReturned(c, 0, e)
    /\ loaderMu' = [loaderMu EXCEPT !.writer = "none"]
    /\ UNCHANGED <<now, ttl, lconfig, lcachedRules, lastLoaded, loadCount, lastOk,
                   loadCalls, regexVars, notLoader>>

\* The refresh that publishes the configuration and not its compiled rules.
LoadPublishConfigOnly(c) ==
    /\ lc[c].pc = "loading"
    /\ \E cfg \in LoaderConfigs :
          LET r == PrepareConfiguration(cfg, [patterns |-> patterns, nextRe |-> nextRe])
          IN /\ patterns' = r.st.patterns
             /\ nextRe' = r.st.nextRe
             /\ r.err = "nil"
             /\ lconfig' = [id |-> loadCount, cfg |-> cfg]
             /\ lastLoaded' = now
             /\ lastOk' = [id |-> loadCount, end |-> now]
             /\ LoadReturned(c, loadCount, "nil")
    /\ loaderMu' = [loaderMu EXCEPT !.writer = "none"]
    /\ UNCHANGED <<now, ttl, lcachedRules, loadCount, loadCalls, regexMu, rg, returned,
                   regexCalls, notLoader>>

\* l.loader.Load(ctx) returns a configuration: PrepareConfiguration compiles
\* it; on its error Load returns the error, otherwise config, cachedRules and
\* lastLoaded are set; the lock is released.
LoadDone(c) ==
    /\ lc[c].pc = "loading"
    /\ \E cfg \in LoaderConfigs :
          LET r == PrepareConfiguration(cfg, [patterns |-> patterns, nextRe |-> nextRe])
          IN /\ patterns' = r.st.patterns
             /\ nextRe' = r.st.nextRe
             /\ IF r.err # "nil"
                THEN /\ LoadReturned(c, 0, "failed to prepare cached rules")
                     /\ UNCHANGED <<lconfig, lcachedRules, lastLoaded, lastOk>>
                ELSE /\ lconfig' = [id |-> loadCount, cfg |-> cfg]
                     /\ lcachedRules' = [of |-> loadCount, cfg |-> r.cfg]
                     /\ lastLoaded' = now
                     /\ lastOk' = [id |-> loadCount, end |-> now]
                     /\ LoadReturned(c, loadCount, "nil")
    /\ loaderMu' = [loaderMu EXCEPT !.writer = "none"]
    /\ UNCHANGED <<now, ttl, loadCount, loadCalls, regexMu, rg, returned, regexCalls,
                   notLoader>>

\* LoadCached after Load: l.mu.RLock()
LoadCachedRLock(c) ==
    /\ lc[c].pc = "loaded"
    /\ loaderMu.writer = "none"
    /\ loaderMu' = [loaderMu EXCEPT !.readers = @ \cup {c}]
    /\ lc' = [lc EXCEPT ![c].pc = "lcrlocked"]
    /\ UNCHANGED <<now, ttl, lconfig, lcachedRules, lastLoaded, loadCount, lastOk,
                   loadCalls, regexVars, notLoader>>

\* return l.cachedRules, nil and the deferred l.mu.RUnlock()
LoadCachedRead(c) ==
    /\ lc[c].pc = "lcrlocked"
    /\ loaderMu' = [loaderMu EXCEPT !.readers = @ \ {c}]
    /\ lc' = [lc EXCEPT ![c].pc = "idle", ![c].err = "nil",
                        ![c].rules = IF lcachedRules = Nil THEN 0 ELSE lcachedRules.of]
    /\ UNCHANGED <<now, ttl, lconfig, lcachedRules, lastLoaded, loadCount, lastOk,
                   loadCalls, regexVars, notLoader>>

\* Time passes.
LoadTick ==
    /\ now < MaxTime
    /\ now' = now + 1
    /\ UNCHANGED <<ttl, lconfig, lcachedRules, lastLoaded, loaderMu, lc, loadCount,
                   lastOk, loadCalls, regexVars, notLoader>>

(***************************************************************************)
(* Retry with back-off: Do, DoWithConfig and DoTyped.  An error value is   *)
(* its message and the message of the error it wraps.                      *)
(***************************************************************************)
NoError == [msg |-> "nil", wraps |-> "nil"]

\* errors.New(msg)
New(msg) == [msg |-> msg, wraps |-> "nil"]

\* fmt.Errorf(msg + ": %w", err)
Errorf(msg, err) == [msg |-> msg, wraps |-> err.msg]

\* The largest MaxRetries of the configurations tried.
MaxRetriesBound == 2

\* WithMaxRetries takes any int.
RetryCounts == -1..MaxRetriesBound

nonRetryableErr == New("non-retryable")

\* The errors fn returns; the last one has a transient text.
FnErrors == {New("temporary error"), New("persistent error"), nonRetryableErr,
             New("read: connection reset by peer")}

retryablePatterns ==
    <<"timeout", "connection refused", "connection reset", "no such host",
      "temporary failure", "TooManyRequests", "RequestLimitExceeded",
      "ServiceUnavailable", "ThrottlingException",
      "ProvisionedThroughputExceededException", "TransactionInProgressException",
      "RequestThrottled">>

\* containsMiddle with its loop started at offset 2.
containsMiddleFromTwo(s, substr) ==
    /\ Len(s) > Len(substr)
    /\ \E i \in 2..(Len(s) - Len(substr) - 1) :
          SubSeq(s, i + 1, i + Len(substr)) = substr

\* containsMiddle(s, substr): substr at an offset from 1 to
\* len(s)-len(substr)-1.
containsMiddle(s, substr) ==
    /\ Len(s) > Len(substr)
    /\ \E i \in 1..(Len(s) - Len(substr) - 1) :
          SubSeq(s, i + 1, i + Len(substr)) = substr

\* contains(s, substr): the whole of s, a prefix, a suffix, or in the middle.
contains(s, substr) ==
    /\ Len(substr) > 0
    /\ Len(s) >= Len(substr)
    /\ \/ s = substr
       \/ /\ Len(s) > Len(substr)
          /\ \/ SubSeq(s, 1, Len(substr)) = substr
             \/ SubSeq(s, Len(s) - Len(substr) + 1, Len(s)) = substr
       \/ containsMiddle(s, substr)

\* IsRetryable(err): nil is not retryable, any other error is when its text
\* contains one of the patterns.
IsRetryable(err) ==
    /\ err # NoError
    /\ \E k \in 1..Len(retryablePatterns) : contains(err.msg, retryablePatterns[k])

\* The functions given as cfg.RetryableError: the one of DefaultConfig, which
\* returns true, the predicate of the test, err != nonRetryableErr, and
\* IsRetryable.
RetryablePredicates == {"always", "notNonRetryable", "IsRetryable"}

RetryableError(cfg, err) ==
    CASE cfg.RetryableError = "always" -> TRUE
      [] cfg.RetryableError = "notNonRetryable" -> err # nonRetryableErr
      [] OTHER -> IsRetryable(err)

\* DefaultConfig with the textual screen as its predicate.
DefaultConfigTextual == [MaxRetries |-> 3, RetryableError |-> "IsRetryable"]

\* DefaultConfig(): three retries, every error retried.  The delays are
\* left to calculateDelay.
DefaultConfig == [MaxRetries |-> 3, RetryableError |-> "always"]

\* The options: WithMaxRetries(n) and WithRetryableError(f).
WithMaxRetries(n) == [opt |-> "WithMaxRetries", n |-> n, f |-> "none"]
WithRetryableError(f) == [opt |-> "WithRetryableError", n |-> 0, f |-> f]

ApplyOption(o, cfg) ==
    IF o.opt = "WithMaxRetries"
    THEN [cfg EXCEPT !.MaxRetries = o.n]
    ELSE [cfg EXCEPT !.RetryableError = o.f]

\* Do's first lines: the default configuration, then each option in turn.
RECURSIVE ApplyOptions(_, _)
ApplyOptions(opts, cfg) ==
    IF opts = <<>> THEN cfg
    ELSE ApplyOptions(Tail(opts), ApplyOption(Head(opts), cfg))

\* The option lists of the calls: none, either option, or both.
RetryOptions ==
    {<<>>}
    \cup {<<WithMaxRetries(n)>> : n \in RetryCounts}
    \cup {<<WithRetryableError(f)>> : f \in RetryablePredicates \ {"always"}}
    \cup {<<WithMaxRetries(n), WithRetryableError(f)>> :
             n \in RetryCounts, f \in RetryablePredicates \ {"always"}}

\* The zero value of T, and a value fn produces.
Zero == "zero"
Value == "value"

\* What one invocation of fn returns: Do's fn returns an error only, DoTyped's
\* a result and an error.
FnOutcomes(op) ==
    IF op = "Do"
    THEN [res : {Zero}, err : {NoError} \cup FnErrors]
    ELSE [res : {Zero, Value}, err : {NoError} \cup FnErrors]

\* ctx.Err() of a context that is done.
CtxErrors == {"context canceled", "context deadline exceeded"}

NotReturned == [val |-> Zero, err |-> New("not returned")]

\* The events of a call's history: what happened, where the call was in its
\* loop, and the error fn returned.
FnEvent(o) == [ev |-> "fn", at |-> "call", err |-> o.err]
SleepEvent == [ev |-> "sleep", at |-> "sleep", err |-> NoError]
CancelEvent(at) == [ev |-> "cancel", at |-> at, err |-> NoError]

\* The return on an error that is not retryable: the declared result, which
\* was never assigned, and the error as fn gave it.
GiveUpKeepingResult(o) == [val |-> o.res, err |-> o.err]

GiveUp(o) == [val |-> Zero, err |-> o.err]

\* "Don't sleep after the last attempt".
LastAttemptOffByOne(a, cfg) == a = cfg.MaxRetries + 1

LastAttempt(a, cfg) == a = cfg.MaxRetries

\* The context is cancelled, or its deadline passes.
RetryCancel ==
    /\ rpc \in {"loop", "call", "sleep", "exhausted"}
    /\ rctx = "nil"
    /\ \E e \in CtxErrors : rctx' = e
    /\ rtrace' = Append(rtrace, CancelEvent(rpc))
    /\ UNCHANGED <<rop, ropts, rcfg, attempt, lastErr, rpc, rret, notRetry>>

\* The head of the loop without its select on ctx.Done().
RetryLoopIgnoringCtx ==
    /\ rpc = "loop"
    /\ IF attempt <= rcfg.MaxRetries
       THEN rpc' = "call" /\ rret' = rret
       ELSE /\ rpc' = "done"
            /\ rret' = [val |-> Zero,
                        err |-> Errorf("operation failed after "
                                       \o ToString(rcfg.MaxRetries) \o " retries",
                                       lastErr)]
    /\ UNCHANGED <<rop, ropts, rcfg, rctx, attempt, lastErr, rtrace, notRetry>>

\* The head of the loop: the condition attempt <= cfg.MaxRetries, then the
\* select on ctx.Done() with its default branch.  When the condition fails
\* the loop is left for the return below it.
RetryLoop ==
    /\ rpc = "loop"
    /\ IF attempt <= rcfg.MaxRetries
       THEN IF rctx # "nil"
            THEN /\ rpc' = "done"
                 /\ rret' = [val |-> Zero,
                             err |-> Errorf("context cancelled", New(rctx))]
            ELSE rpc' = "call" /\ rret' = rret
       ELSE /\ rpc' = "done"
            /\ rret' = [val |-> Zero,
                        err |-> Errorf("operation failed after "
                                       \o ToString(rcfg.MaxRetries) \o " retries",
                                       lastErr)]
    /\ UNCHANGED <<rop, ropts, rcfg, rctx, attempt, lastErr, rtrace, notRetry>>

\* fn() is invoked and returns: nil ends the call, an error that is not
\* retryable ends it too, the last attempt breaks out of the loop, any other
\* attempt computes its delay and enters the select of the back-off.
RetryAttempt ==
    /\ rpc = "call"
    /\ \E o \in FnOutcomes(rop) :
          IF o.err = NoError
          THEN /\ rpc' = "done"
               /\ rret' = [val |-> o.res, err |-> NoError]
               /\ lastErr' = lastErr
               /\ rtrace' = Append(rtrace, FnEvent(o))
          ELSE /\ lastErr' = o.err
               /\ IF ~RetryableError(rcfg, o.err)
                  THEN /\ rpc' = "done"
                       /\ rret' = GiveUp(o)
                       /\ rtrace' = Append(rtrace, FnEvent(o))
                  ELSE IF LastAttempt(attempt, rcfg)
                       THEN /\ rpc' = "exhausted"
                            /\ rret' = rret
                            /\ rtrace' = Append(rtrace, FnEvent(o))
                       ELSE /\ rpc' = "sleep"
                            /\ rret' = rret
                            /\ rtrace' = Append(Append(rtrace, FnEvent(o)), SleepEvent)
    /\ UNCHANGED <<rop, ropts, rcfg, rctx, attempt, notRetry>>

\* The select of the back-off: time.After(delay) fires, and the loop goes to
\* its next attempt.
RetryTimer ==
    /\ rpc = "sleep"
    /\ rpc' = "loop"
    /\ attempt' = attempt + 1
    /\ UNCHANGED <<rop, ropts, rcfg, rctx, lastErr, rtrace, rret, notRetry>>

\* The select of the back-off: ctx.Done() is ready.
RetrySleepCancelled ==
    /\ rpc = "sleep"
    /\ rctx # "nil"
    /\ rpc' = "done"
    /\ rret' = [val |-> Zero,
                err |-> Errorf("context cancelled during retry", New(rctx))]
    /\ UNCHANGED <<rop, ropts, rcfg, rctx, attempt, lastErr, rtrace, notRetry>>

\* The return after the loop, reached by the break of the last attempt.
RetryExhausted ==
    /\ rpc = "exhausted"
    /\ rpc' = "done"
    /\ rret' = [val |-> Zero,
                err |-> Errorf("operation failed after "
                               \o ToString(rcfg.MaxRetries) \o " retries", lastErr)]
    /\ UNCHANGED <<rop, ropts, rcfg, rctx, attempt, lastErr, rtrace, notRetry>>

(***************************************************************************)
(* calculateDelay.  A time.Duration is a whole number of nanoseconds; the  *)
(* float64 values of the computation are kept as exact fractions, and       *)
(* Multiplier is counted in halves, so that 3 stands for 1.5.               *)
(***************************************************************************)
NotYetCalled == [called |-> FALSE]

\* The largest attempt, BaseDelay, MaxDelay and Multiplier (in halves) tried,
\* and the number of values rand.Float64() is drawn from: r/JitterSteps for r
\* in 0..JitterSteps-1.
MaxDelayAttempt == 3
MaxBaseDelay == 3
MaxMaxDelay == 6
MaxMultiplierHalves == 4
JitterSteps == 4

RECURSIVE Pow(_, _)
Pow(b, e) == IF e = 0 THEN 1 ELSE b * Pow(b, e - 1)

DelayConfigs ==
    [BaseDelay : 0..MaxBaseDelay, MaxDelay : 0..MaxMaxDelay,
     Multiplier : 1..MaxMultiplierHalves, Jitter : BOOLEAN]

\* calculateDelay without its cap.
calculateDelayUncapped(a, cfg, r) ==
    LET den == Pow(2, a) * 4 * JitterSteps
        delay == cfg.BaseDelay * Pow(cfg.Multiplier, a) * 4 * JitterSteps
        jittered == IF cfg.Jitter
                    THEN delay + r * cfg.BaseDelay * Pow(cfg.Multiplier, a)
                    ELSE delay
    IN  jittered \div den

\* calculateDelay(attempt, cfg), r/JitterSteps being the value rand.Float64()
\* returns: BaseDelay * Multiplier^attempt, plus jitter of a quarter of it
\* times the random value, capped at MaxDelay, then cut to a Duration.  The
\* float64 delay is the fraction delay/den.
calculateDelay(a, cfg, r) ==
    LET den == Pow(2, a) * 4 * JitterSteps
        delay == cfg.BaseDelay * Pow(cfg.Multiplier, a) * 4 * JitterSteps
        jittered == IF cfg.Jitter
                    THEN delay + r * cfg.BaseDelay * Pow(cfg.Multiplier, a)
                    ELSE delay
    IN  IF jittered > cfg.MaxDelay * den THEN cfg.MaxDelay ELSE jittered \div den

CallCalculateDelay ==
    /\ ~retval.called
    /\ retval' = [called |-> TRUE,
                  delay |-> calculateDelay(args.attempt, args.cfg, args.rand)]
    /\ UNCHANGED <<args, notCall>>

(***************************************************************************)
(* VersionedConfiguration: Validate and Load.  Texts are strings, read      *)
(* byte by byte.                                                           *)
(***************************************************************************)
\* The byte at index i of s, "" past its end.
Char(s, i) == IF i \in 1..Len(s) THEN SubSeq(s, i, i) ELSE ""

\* strings.Contains, strings.HasPrefix, strings.HasSuffix
StringsContains(s, sub) ==
    \E i \in 0..(Len(s) - Len(sub)) : SubSeq(s, i + 1, i + Len(sub)) = sub
HasPrefix(s, pre) == Len(s) >= Len(pre) /\ SubSeq(s, 1, Len(pre)) = pre
HasSuffix(s, suf) ==
    Len(s) >= Len(suf) /\ SubSeq(s, Len(s) - Len(suf) + 1, Len(s)) = suf

\* isValidFieldPath: the pattern ^[a-zA-Z][a-zA-Z0-9_.\-]*$, then no "..",
\* no dot at the start or the end.
isValidFieldPath(path) ==
    /\ Len(path) > 0
    /\ Char(path, 1) \in Letters
    /\ \A i \in 2..Len(path) : Char(path, i) \in Letters \cup Digits \cup {"_", ".", "-"}
    /\ ~(StringsContains(path, "..") \/ HasPrefix(path, ".") \/ HasSuffix(path, "."))

\* The first index from i on whose byte is not of the class, Len(s)+1 if none.
RECURSIVE Span(_, _, _)
Span(s, i, class) ==
    IF i <= Len(s) /\ Char(s, i) \in class THEN Span(s, i + 1, class) ELSE i

\* ValidateSemver: ^v?(\d+)\.(\d+)\.(\d+)(-[a-zA-Z0-9.]+)?(\+[a-zA-Z0-9.]+)?$
ValidateSemver(version) ==
    LET tag == Letters \cup Digits \cup {"."}
        i0 == IF HasPrefix(version, "v") THEN 2 ELSE 1
        i1 == Span(version, i0, Digits)
        i2 == Span(version, i1 + 1, Digits)
        i3 == Span(version, i2 + 1, Digits)
        i4 == IF Char(version, i3) = "-" THEN Span(version, i3 + 1, tag) ELSE i3
        i5 == IF Char(version, i4) = "+" THEN Span(version, i4 + 1, tag) ELSE i4
    IN  /\ i1 > i0 /\ Char(version, i1) = "."
        /\ i2 > i1 + 1 /\ Char(version, i2) = "."
        /\ i3 > i2 + 1
        /\ Char(version, i3) = "-" => i4 > i3 + 1
        /\ Char(version, i4) = "+" => i5 > i4 + 1
        /\ i5 = Len(version) + 1

\* The largest number of rules of a configuration.
MaxVersionedRules == 3

VMatch(field, regex) == [FieldName |-> field, Regex |-> regex]

\* A Rule; Matches nil (the key absent) is hasMatches = FALSE.
VRule(name, has, matches) == [Name |-> name, hasMatches |-> has, Matches |-> matches]

GoodRegex == "^Test.*$"

\* Rules as a YAML document or a caller gives them, valid and not.
VersionedRules ==
    {VRule("a", TRUE, <<VMatch("eventName", GoodRegex)>>),
     VRule("b", TRUE, <<VMatch("userIdentity.arn", "kms.*")>>),
     VRule("a", TRUE, <<>>),
     VRule("a", FALSE, <<>>),
     VRule("", TRUE, <<VMatch("eventName", GoodRegex)>>),
     VRule("b", TRUE, <<VMatch("x y", GoodRegex)>>),
     VRule("b", TRUE, <<VMatch("eventName", GoodRegex), VMatch("a.1b", GoodRegex)>>),
     VRule("a", TRUE, <<VMatch("", GoodRegex)>>),
     VRule("b", TRUE, <<VMatch("eventName", "")>>),
     VRule("b", TRUE, <<VMatch("eventName", "[invalid(regex")>>),
     VRule("a", TRUE, <<VMatch("eventName", NestedQuantifier)>>)}

VersionTexts == {"1.0.0", "v1.2.3-alpha.1+build", "invalid", ""}

\* A VersionedConfiguration; Rules nil (the key absent) is hasRules = FALSE,
\* and `rules: []` is hasRules = TRUE with no rule.
VersionedConfigs ==
    {[Version |-> v, hasRules |-> FALSE, Rules |-> <<>>] : v \in VersionTexts}
    \cup {[Version |-> v, hasRules |-> TRUE, Rules |-> rs] :
             v \in VersionTexts,
             rs \in UNION {[1..n -> VersionedRules] : n \in 0..MaxVersionedRules}}

\* The index of a path, as fmt.Sprintf prints it.
Idx(i) == "[" \o ToString(i - 1) \o "]"

FieldError(ns, tag) == [Namespace |-> ns, Tag |-> tag]

\* validate.Struct(vc): the tags of VersionedConfiguration, Rule and Match.
\* "required" fails on an empty string and on a nil slice, not on an empty
\* one; "dive" goes through the elements.
StructErrors(vc) ==
    {FieldError("VersionedConfiguration.Version", "required") : x \in
        {1} \cap (IF vc.Version = "" THEN {1} ELSE {})}
    \cup {FieldError("VersionedConfiguration.Version", "semver") : x \in
        {1} \cap (IF vc.Version # "" /\ ~ValidateSemver(vc.Version) THEN {1} ELSE {})}
    \cup {FieldError("VersionedConfiguration.Rules", "required") : x \in
        {1} \cap (IF ~vc.hasRules THEN {1} ELSE {})}
    \cup {FieldError("VersionedConfiguration.Rules" \o Idx(i) \o ".Name", "required") :
             i \in {k \in 1..Len(vc.Rules) : vc.Rules[k].Name = ""}}
    \cup {FieldError("VersionedConfiguration.Rules" \o Idx(i) \o ".Matches", "required") :
             i \in {k \in 1..Len(vc.Rules) : ~vc.Rules[k].hasMatches}}
    \cup UNION {
           {FieldError("VersionedConfiguration.Rules" \o Idx(i) \o ".Matches" \o Idx(j)
                          \o ".FieldName", "required") :
               j \in {k \in 1..Len(vc.Rules[i].Matches) :
                         vc.Rules[i].Matches[k].FieldName = ""}}
           \cup
           {FieldError("VersionedConfiguration.Rules" \o Idx(i) \o ".Matches" \o Idx(j)
                          \o ".Regex", "is-regex") :
               j \in {k \in 1..Len(vc.Rules[i].Matches) :
                         ~ValidateIsRegex(vc.Rules[i].Matches[k].Regex)}}
           : i \in 1..Len(vc.Rules)}

ValidationError(field, rule, message) ==
    [Field |-> field, Rule |-> rule, Message |-> message]

\* validateRules: the checks on match j of rule i.
MatchErrors(rule, i, j) ==
    LET match == rule.Matches[j]
        at == "rules" \o Idx(i) \o ".matches" \o Idx(j)
    IN  (IF match.FieldName = ""
         THEN <<ValidationError(at \o ".field_name", rule.Name,
                                "field name cannot be empty")>>
         ELSE <<>>)
        \o (IF match.Regex = ""
            THEN <<ValidationError(at \o ".regex", rule.Name,
                                   "regex pattern cannot be empty")>>
            ELSE <<>>)
        \o (IF ~Compiles(match.Regex)
            THEN <<ValidationError(at \o ".regex", rule.Name, "invalid regex pattern")>>
            ELSE <<>>)
        \o (IF containsReDoSPattern(match.Regex)
            THEN <<ValidationError(at \o ".regex", rule.Name,
                     "potentially dangerous regex pattern detected (ReDoS vulnerability)")>>
            ELSE <<>>)

RECURSIVE MatchErrorsFrom(_, _, _)
MatchErrorsFrom(rule, i, j) ==
    IF j > Len(rule.Matches) THEN <<>>
    ELSE MatchErrors(rule, i, j) \o MatchErrorsFrom(rule, i, j + 1)

\* validateRules, from rule i on.
RECURSIVE validateRulesFrom(_, _)
validateRulesFrom(vc, i) ==
    IF i > Len(vc.Rules) THEN <<>>
    ELSE LET rule == vc.Rules[i] IN
         (IF rule.Name = ""
          THEN <<ValidationError("rules" \o Idx(i) \o ".name", rule.Name,
                                 "rule name cannot be empty")>>
          ELSE <<>>)
         \o (IF Len(rule.Matches) = 0
             THEN <<ValidationError("rules" \o Idx(i) \o ".matches", rule.Name,
                                    "rule must have at least one match")>>
             ELSE <<>>)
         \o MatchErrorsFrom(rule, i, 1)
         \o validateRulesFrom(vc, i + 1)

validateRules(vc) == validateRulesFrom(vc, 1)

\* checkDuplicateRuleNames from rule i on, seen mapping the names met so far
\* to their index: the first rule whose name is in seen, or none.
RECURSIVE checkDuplicateRuleNamesFrom(_, _, _)
checkDuplicateRuleNamesFrom(vc, i, seen) ==
    IF i > Len(vc.Rules) THEN <<>>
    ELSE LET name == vc.Rules[i].Name IN
         IF name \in DOMAIN seen
         THEN <<ValidationError("rules" \o Idx(i) \o ".name", name,
                                "duplicate rule name (also at index "
                                \o ToString(seen[name] - 1) \o ")")>>
         ELSE checkDuplicateRuleNamesFrom(
                  vc, i + 1,
                  [n \in DOMAIN seen \cup {name} |-> IF n = name THEN i ELSE seen[n]])

checkDuplicateRuleNames(vc) == checkDuplicateRuleNamesFrom(vc, 1, <<>>)

\* validateFieldPaths: the matches of rule i from match j on, then the rules
\* after it.  The warning about an unknown field is a log line only.
RECURSIVE validateFieldPathsFrom(_, _, _)
validateFieldPathsFrom(vc, i, j) ==
    IF i > Len(vc.Rules) THEN <<>>
    ELSE IF j > Len(vc.Rules[i].Matches) THEN validateFieldPathsFrom(vc, i + 1, 1)
    ELSE LET field == vc.Rules[i].Matches[j].FieldName IN
         (IF ~isValidFieldPath(field)
          THEN <<ValidationError("rules" \o Idx(i) \o ".matches" \o Idx(j) \o ".field_name",
                                 vc.Rules[i].Name, "invalid field path syntax: " \o field)>>
          ELSE <<>>)
         \o validateFieldPathsFrom(vc, i, j + 1)

validateFieldPaths(vc) == validateFieldPathsFrom(vc, 1, 1)

NoValidationError == [kind |-> "nil", fieldErrors |-> {}, errors |-> <<>>]

\* VersionedConfiguration.Validate: the error of validate.Struct when there is
\* one, otherwise the errors of validateRules, checkDuplicateRuleNames and
\* validateFieldPaths together, otherwise nil.
VersionedValidate(vc) ==
    IF StructErrors(vc) # {}
    THEN [kind |-> "validator.ValidationErrors", fieldErrors |-> StructErrors(vc),
          errors |-> <<>>]
    ELSE LET errs == validateRules(vc) \o checkDuplicateRuleNames(vc)
                     \o validateFieldPaths(vc)
         IN  IF errs # <<>>
             THEN [kind |-> "ValidationErrors", fieldErrors |-> {}, errors |-> errs]
             ELSE NoValidationError

\* ToConfiguration
ToConfiguration(vc) == [hasRules |-> vc.hasRules, Rules |-> vc.Rules]

NoConfiguration == [hasRules |-> FALSE, Rules |-> <<>>]

\* Load, on the document as yaml.Unmarshal decoded it: LoadVersioned's test of
\* the version, Validate, ToConfiguration.
Load(vc) ==
    IF vc.Version = ""
    THEN [cfg |-> NoConfiguration, err |-> "configuration version is required"]
    ELSE IF VersionedValidate(vc) # NoValidationError
    THEN [cfg |-> NoConfiguration, err |-> "configuration validation failed"]
    ELSE [cfg |-> ToConfiguration(vc), err |-> "nil"]

\* The shapes as the comments of dangerousPatterns quote them.
QuotedShapes ==
    {"(.*)+", "(.+)+", "(\\w+)*\\w*", "(\\d+)+", "(.*)*", "([^/]+)+/"}

\* Pattern texts for the regex screen: a core, which is one of the quoted
\* shapes, a text a dangerous pattern matches, harmless, or wrongly paired,
\* between a prefix and a suffix; and texts at the limit of 1000 bytes.
ScreenCores ==
    QuotedShapes
    \cup {"(5+)+", "(a+)*b*", "(_+)*9*"}
    \cup {"", "(", ")", "[a", "a.*", "(a|b)", "(a+)", "(.*)", "\\d+"}

ScreenTexts ==
    {pre \o core \o suf : pre \in {"", "a", "^x"}, core \in ScreenCores,
                            suf \in {"", "$", "b"}}
    \cup {Repeat("a", 999), Repeat("a", 1000), Overlong,
          NestedQuantifier \o Repeat("a", 995), Unbalanced \o Repeat("a", 999),
          Repeat("a", 995) \o "(a|b)", Repeat("a", 996) \o "(a|b)"}

\* Configurations of one rule, valid but for the regex of its matches.
ScreenConfigs ==
    {[Version |-> "1.0.0", hasRules |-> TRUE,
      Rules |-> <<VRule("a", TRUE, ms)>>] :
        ms \in {<<VMatch("eventName", q)>> : q \in ScreenTexts}
               \cup {<<VMatch("eventName", f), VMatch("eventSource", q)>> :
                        f \in {GoodRegex, Overlong}, q \in ScreenTexts}}

\* validate.Struct calls ValidateIsRegex on the Regex of every match.
CallValidateIsRegex ==
    /\ ~retval.called
    /\ retval' = [called |-> TRUE, op |-> "ValidateIsRegex",
                  accepted |-> [j \in 1..Len(args.Rules[1].Matches) |->
                                   ValidateIsRegex(args.Rules[1].Matches[j].Regex)],
                  validate |-> NoValidationError,
                  load |-> [cfg |-> NoConfiguration, err |-> "none"]]
    /\ UNCHANGED <<args, notCall>>

\* vc.Validate()
CallVersionedValidate ==
    /\ ~retval.called
    /\ retval' = [called |-> TRUE, op |-> "Validate", validate |-> VersionedValidate(args),
                  load |-> [cfg |-> NoConfiguration, err |-> "none"]]
    /\ UNCHANGED <<args, notCall>>

\* Load(rawCfg)
CallLoad ==
    /\ ~retval.called
    /\ retval' = [called |-> TRUE, op |-> "Load", validate |-> NoValidationError,
                  load |-> Load(args)]
    /\ UNCHANGED <<args, notCall>>

(***************************************************************************)
(* The filesystem: os.ReadFile, LoadFromConfigFile, LocalConfigLoader.Load  *)
(* and utils.ReadFileContents.  A call's retval.reads lists the paths       *)
(* handed to os.ReadFile.                                                  *)
(***************************************************************************)
\* What is at a path: nothing, bytes that yaml.Unmarshal refuses, or a document.
NoFile == [exists |-> FALSE, parses |-> FALSE, doc |-> NoConfiguration]
Garbled == [exists |-> TRUE, parses |-> FALSE, doc |-> NoConfiguration]
Document(vc) == [exists |-> TRUE, parses |-> TRUE, doc |-> vc]

LocalPaths ==
    {"rules.yaml", "./rules.yaml", "/var/task/rules.yaml", "/non/existent/file.yaml",
     "../rules.yaml", "../../rules-example.yaml", "/var/task/../../etc/passwd",
     "conf/../rules.yaml", "..", "rules..yaml", "a/b/..", ".rules.yaml"}

LocalDocuments ==
    {[Version |-> "1.0.0", hasRules |-> TRUE,
      Rules |-> <<VRule("a", TRUE, <<VMatch("eventName", GoodRegex)>>)>>],
     [Version |-> "", hasRules |-> TRUE,
      Rules |-> <<VRule("a", TRUE, <<VMatch("eventName", GoodRegex)>>)>>],
     [Version |-> "1.0.0", hasRules |-> TRUE,
      Rules |-> <<VRule("", TRUE, <<VMatch("eventName", GoodRegex)>>)>>]}

LocalFiles == {NoFile, Garbled} \cup {Document(vc) : vc \in LocalDocuments}

\* LoadFromConfigFile(ctx, path), on the file at the path: os.ReadFile first,
\* then LoadVersioned, Validate and ToConfiguration.
LoadFromConfigFile(path, file) ==
    IF ~file.exists
    THEN [cfg |-> NoConfiguration, err |-> "read config from file failed",
          reads |-> <<path>>]
    ELSE IF ~file.parses \/ file.doc.Version = ""
    THEN [cfg |-> NoConfiguration, err |-> "load versioned configuration failed",
          reads |-> <<path>>]
    ELSE IF VersionedValidate(file.doc) # NoValidationError
    THEN [cfg |-> NoConfiguration, err |-> "configuration validation failed",
          reads |-> <<path>>]
    ELSE [cfg |-> ToConfiguration(file.doc), err |-> "nil", reads |-> <<path>>]

\* utils.ReadFileContents(filepath)
ReadFileContents(filepath, file) ==
    IF StringsContains(filepath, "..")
    THEN [cfg |-> NoConfiguration, err |-> "invalid file path", reads |-> <<>>]
    ELSE IF ~file.exists
    THEN [cfg |-> NoConfiguration, err |-> "failed to read file", reads |-> <<filepath>>]
    ELSE [cfg |-> NoConfiguration, err |-> "nil", reads |-> <<filepath>>]

\* LocalConfigLoader.Load(ctx)
CallLocalLoad ==
    /\ ~retval.called
    /\ retval' = [called |-> TRUE, op |-> "LocalConfigLoader.Load",
                  out |-> LoadFromConfigFile(args.path, args.file)]
    /\ UNCHANGED <<args, notCall>>

\* utils.ReadFileContents(filepath)
CallReadFileContents ==
    /\ ~retval.called
    /\ retval' = [called |-> TRUE, op |-> "ReadFileContents",
                  out |-> ReadFileContents(args.path, args.file)]
    /\ UNCHANGED <<args, notCall>>

(***************************************************************************)
(* decodeJSON, DownloadCloudtrail and DownloadCloudtrailMultiPart.  Sizes   *)
(* are counts of bytes.  An object is what S3 holds: the bytes stored, of   *)
(* downloadSize, which are gzip or not; the document they stand for, of     *)
(* decodedSize bytes, whose first JSON value, when the document is well     *)
(* formed, ends `trailing` bytes before the end (a final newline).          *)
(***************************************************************************)
MiB == 1024 * 1024
maxJSONSize == 100 * MiB
maxDownloadSize == 500 * MiB

ObjectSizes ==
    {2, maxJSONSize - 1, maxJSONSize, maxJSONSize + 1, 300 * MiB,
     maxDownloadSize - 1, maxDownloadSize, maxDownloadSize + 1}

S3Objects ==
    {o \in [downloadSize : ObjectSizes, decodedSize : ObjectSizes,
            compressed : BOOLEAN, wellFormed : BOOLEAN, trailing : {0, 1},
            keySuffix : {".json", ".gz"},
            ContentType : {"application/json", "application/x-gzip"},
            svcErr : BOOLEAN] :
        /\ ~o.compressed => o.decodedSize = o.downloadSize
        /\ o.trailing < o.decodedSize - 1}

\* decodeJSON(r) on a reader that yields size bytes, the first JSON value
\* ending at valueEnd (0: the bytes are no JSON).  io.LimitReader cuts the
\* stream at maxJSONSize bytes without an error, io.ReadAll returns what is
\* left, and Decode reads one value and ignores what follows it.
decodeJSON(size, valueEnd) ==
    LET data == Min(size, maxJSONSize)
    IN  IF valueEnd = 0 \/ valueEnd > data
        THEN "failed to decode JSON"
        ELSE "nil"

\* The end of the first JSON value of the object's document.
ValueEnd(o) == IF o.wellFormed THEN o.decodedSize - o.trailing ELSE 0

\* The reader chosen when gzip is assumed (gz) or not.
ReadAndDecode(o, gz) ==
    IF gz
    THEN IF ~o.compressed THEN "gzip: invalid header"
         ELSE decodeJSON(o.decodedSize, ValueEnd(o))
    ELSE IF o.compressed THEN decodeJSON(o.downloadSize, 0)
         ELSE decodeJSON(o.downloadSize, ValueEnd(o))

\* S3Copier.DownloadCloudtrailMultiPart(ctx, bucket, key)
DownloadCloudtrailMultiPart(o) ==
    LET fileSize == o.downloadSize
    IN  IF fileSize > maxDownloadSize
        THEN "file size exceeds maximum allowed size"
        ELSE IF o.svcErr THEN "download failed"
        ELSE ReadAndDecode(o, o.keySuffix = ".gz")

\* S3Copier.DownloadCloudtrail(ctx, bucket, key)
DownloadCloudtrail(o) ==
    IF o.svcErr THEN "GetObject failed"
    ELSE ReadAndDecode(o, o.ContentType = "application/x-gzip")

CallDownloadCloudtrailMultiPart ==
    /\ ~retval.called
    /\ retval' = [called |-> TRUE, op |-> "DownloadCloudtrailMultiPart",
                  err |-> DownloadCloudtrailMultiPart(args)]
    /\ UNCHANGED <<args, notCall>>

CallDownloadCloudtrail ==
    /\ ~retval.called
    /\ retval' = [called |-> TRUE, op |-> "DownloadCloudtrail",
                  err |-> DownloadCloudtrail(args)]
    /\ UNCHANGED <<args, notCall>>

(***************************************************************************)
(* Handler of cmd/main.go, run by concurrent invocations: the refresh of    *)
(* the package variable cachedRules, the processor created from it, and    *)
(* the copies, retried, of the event's objects.  A snapshot is the number  *)
(* of the CachedConfiguration that PrepareConfiguration allocated; each    *)
(* read of rules by an evaluation is recorded.                             *)
(***************************************************************************)
Requests == {"h1", "h2"}

MaxClock == 2
refreshInterval == 1
MaxSnapshots == 3
NObjects == 2
RecordsPerObject == 2
MaxOuterRetries == 1
MaxInnerRetries == 1

NoProcessor == -1

\* The number of objects named by the event of each invocation: h1 copies
\* NObjects objects while h2, whose event names none, only refreshes.
EventObjects(i) == IF i = "h1" THEN NObjects ELSE 0

HandlerEntry ==
    [pc |-> "refresh", site |-> "Handler", timeSinceLoad |-> 0, oc |-> 0,
     created |-> NoProcessor, obj |-> 1, outer |-> 0, inner |-> 0, cur |-> 0,
     reads |-> 0, evalSeen |-> {}, seen |-> {}, ret |-> "none"]

\* Where refreshConfigurationIfNeeded returns nil to: Handler goes on to
\* create the processor, Copy to store the rules.
AfterRefresh(i) == IF hd[i].site = "Handler" THEN "create" ELSE "store"

\* Where its error goes: Handler returns it; Copy returns it to the
\* processor's Handler, which DoTyped may retry.
AfterRefreshError(i) == IF hd[i].site = "Handler" THEN "done" ELSE "failed"

\* configMutex.RLock(); timeSinceLoad := time.Since(lastConfigLoad); RUnlock()
RefreshRead(i) ==
    /\ hd[i].pc = "refresh"
    /\ configMutex = "free"
    /\ hd' = [hd EXCEPT ![i].timeSinceLoad = clock - lastConfigLoad, ![i].pc = "fresh"]
    /\ UNCHANGED <<cachedRules, lastConfigLoad, configMutex, clock, nextSnapshot, notHandler>>

\* if timeSinceLoad < refreshInterval && cachedRules != nil { return nil }
RefreshFresh(i) ==
    /\ hd[i].pc = "fresh"
    /\ hd' = [hd EXCEPT ![i].pc =
                 IF hd[i].timeSinceLoad < refreshInterval /\ cachedRules # 0
                 THEN AfterRefresh(i) ELSE "lock"]
    /\ UNCHANGED <<cachedRules, lastConfigLoad, configMutex, clock, nextSnapshot, notHandler>>

\* configMutex.Lock()
RefreshLock(i) ==
    /\ hd[i].pc = "lock"
    /\ configMutex = "free"
    /\ configMutex' = i
    /\ hd' = [hd EXCEPT ![i].pc = "recheck"]
    /\ UNCHANGED <<cachedRules, lastConfigLoad, clock, nextSnapshot, notHandler>>

\* The second test, under the lock; return nil unlocks.
RefreshRecheck(i) ==
    /\ hd[i].pc = "recheck"
    /\ IF clock - lastConfigLoad < refreshInterval /\ cachedRules # 0
       THEN /\ configMutex' = "free"
            /\ hd' = [hd EXCEPT ![i].pc = AfterRefresh(i)]
       ELSE /\ configMutex' = configMutex
            /\ hd' = [hd EXCEPT ![i].pc = "load"]
    /\ UNCHANGED <<cachedRules, lastConfigLoad, clock, nextSnapshot, notHandler>>

\* configLoader.Load or PrepareConfiguration fails: the error is returned.
RefreshLoadFail(i) ==
    /\ hd[i].pc = "load"
    /\ configMutex' = "free"
    /\ hd' = [hd EXCEPT ![i].pc = AfterRefreshError(i),
                        ![i].ret = IF hd[i].site = "Handler" THEN "error" ELSE @]
    /\ UNCHANGED <<cachedRules, lastConfigLoad, clock, nextSnapshot, notHandler>>

\* cachedRules = newCachedRules
RefreshPublish(i) ==
    /\ hd[i].pc = "load"
    /\ nextSnapshot <= MaxSnapshots
    /\ cachedRules' = nextSnapshot
    /\ nextSnapshot' = nextSnapshot + 1
    /\ hd' = [hd EXCEPT ![i].pc = "stamp"]
    /\ UNCHANGED <<lastConfigLoad, configMutex, clock, notHandler>>

\* lastConfigLoad = time.Now(); return nil
RefreshStamp(i) ==
    /\ hd[i].pc = "stamp"
    /\ lastConfigLoad' = clock
    /\ configMutex' = "free"
    /\ hd' = [hd EXCEPT ![i].pc = AfterRefresh(i)]
    /\ UNCHANGED <<cachedRules, clock, nextSnapshot, notHandler>>

\* processor := createOptimizedProcessor(): the copier takes the value of
\* cachedRules.
createOptimizedProcessor(i) ==
    /\ hd[i].pc = "create"
    /\ hd' = [hd EXCEPT ![i].oc = cachedRules, ![i].created = cachedRules,
                        ![i].pc = "copy"]
    /\ UNCHANGED <<cachedRules, lastConfigLoad, configMutex, clock, nextSnapshot, notHandler>>

\* The processor's Handler: the loop over the objects of the event.
ProcessorHandler(i) ==
    /\ hd[i].pc = "copy"
    /\ hd' = IF hd[i].obj > EventObjects(i)
             THEN [hd EXCEPT ![i].pc = "done", ![i].ret = "ok"]
             ELSE [hd EXCEPT ![i].pc = "ensure"]
    /\ UNCHANGED <<cachedRules, lastConfigLoad, configMutex, clock, nextSnapshot, notHandler>>

\* Copy, up to the retry: if oc.cachedRules == nil, refresh, and when the
\* refresh has returned nil, oc.cachedRules = cachedRules.
CopyEnsure(i) ==
    /\ hd[i].pc \in {"ensure", "store"}
    /\ hd' = IF hd[i].pc = "store"
             THEN [hd EXCEPT ![i].oc = cachedRules, ![i].inner = 0, ![i].pc = "attempt"]
             ELSE IF hd[i].oc = 0
             THEN [hd EXCEPT ![i].site = "Copy", ![i].pc = "refresh"]
             ELSE [hd EXCEPT ![i].inner = 0, ![i].pc = "attempt"]
    /\ UNCHANGED <<cachedRules, lastConfigLoad, configMutex, clock, nextSnapshot, notHandler>>

\* An attempt that hands the package variable to the copier.
CopyAttemptReadingGlobal(i) ==
    /\ hd[i].pc = "attempt"
    /\ hd' = [hd EXCEPT ![i].cur = cachedRules, ![i].reads = 0, ![i].evalSeen = {},
                        ![i].pc = "eval"]
    /\ UNCHANGED <<cachedRules, lastConfigLoad, configMutex, clock, nextSnapshot, notHandler>>

\* One attempt of retry.Do: copier.CopyWithCachedRules(ctx, bucket, key,
\* oc.cachedRules)
CopyAttempt(i) ==
    /\ hd[i].pc = "attempt"
    /\ hd' = [hd EXCEPT ![i].cur = hd[i].oc, ![i].reads = 0, ![i].evalSeen = {},
                        ![i].pc = "eval"]
    /\ UNCHANGED <<cachedRules, lastConfigLoad, configMutex, clock, nextSnapshot, notHandler>>

\* The evaluation of one record reads the rules of cachedCfg.
EvalRecord(i) ==
    /\ hd[i].pc = "eval"
    /\ hd[i].reads < RecordsPerObject
    /\ hd' = [hd EXCEPT ![i].reads = @ + 1, ![i].evalSeen = @ \cup {hd[i].cur},
                        ![i].seen = @ \cup {hd[i].cur}]
    /\ UNCHANGED <<cachedRules, lastConfigLoad, configMutex, clock, nextSnapshot, notHandler>>

\* The attempt returns nil: Copy returns, the loop goes to the next object.
CopyDone(i) ==
    /\ hd[i].pc = "eval"
    /\ hd[i].reads = RecordsPerObject
    /\ hd' = [hd EXCEPT ![i].obj = @ + 1, ![i].pc = "copy"]
    /\ UNCHANGED <<cachedRules, lastConfigLoad, configMutex, clock, nextSnapshot, notHandler>>

\* The attempt fails with a retryable error and retry.Do makes another.
CopyRetry(i) ==
    /\ hd[i].pc = "eval"
    /\ hd[i].inner < MaxInnerRetries
    /\ hd' = [hd EXCEPT ![i].inner = @ + 1, ![i].pc = "attempt"]
    /\ UNCHANGED <<cachedRules, lastConfigLoad, configMutex, clock, nextSnapshot, notHandler>>

\* The attempt fails and retry.Do gives up: Copy and the processor's Handler
\* return the error.
CopyFail(i) ==
    /\ hd[i].pc = "eval"
    /\ hd' = [hd EXCEPT ![i].pc = "failed"]
    /\ UNCHANGED <<cachedRules, lastConfigLoad, configMutex, clock, nextSnapshot, notHandler>>

\* retry.DoTyped calls processor.Handler again, on the same processor.
HandlerRetry(i) ==
    /\ hd[i].pc = "failed"
    /\ hd[i].outer < MaxOuterRetries
    /\ hd' = [hd EXCEPT ![i].outer = @ + 1, ![i].obj = 1, ![i].pc = "copy"]
    /\ UNCHANGED <<cachedRules, lastConfigLoad, configMutex, clock, nextSnapshot, notHandler>>

\* retry.DoTyped returns the error and Handler returns it.
HandlerFail(i) ==
    /\ hd[i].pc = "failed"
    /\ hd' = [hd EXCEPT ![i].pc = "done", ![i].ret = "error"]
    /\ UNCHANGED <<cachedRules, lastConfigLoad, configMutex, clock, nextSnapshot, notHandler>>

\* Time passes.
ClockTick ==
    /\ clock < MaxClock
    /\ clock' = clock + 1
    /\ UNCHANGED <<cachedRules, lastConfigLoad, configMutex, nextSnapshot, hd, notHandler>>

(***************************************************************************)
(* FilterRecords called by concurrent goroutines on one recordMapPool.     *)
(* Each call walks its records in order (the two loops of the source, read  *)
(* as one); a pass is split at every use of the pool and of the map.        *)
(***************************************************************************)
FilterCallers == {"f1", "f2"}

MaxPoolRecords == 2

RecEmpty == <<"{", "}">>
RecNull == <<"null">>

PoolRecords == {RecKms.bytes, RecNested.bytes, RecEmpty, RecNull, RecArray.bytes}

\* The records of each call: f1 filters up to MaxPoolRecords records, f2 one.
PoolInputs(g) ==
    IF g = "f1" THEN UNION {[1..n -> PoolRecords] : n \in 0..MaxPoolRecords}
    ELSE [1..1 -> PoolRecords]

PoolConfigs ==
    {[Rules |-> << [Name |-> "check_kms",
                    Matches |-> <<CachedMatch(<<"eventSource">>, "kms.*")>>] >>],
     [Rules |-> << [Name |-> "check_nested",
                    Matches |-> <<CachedMatch(<<"userIdentity", "eventSource">>,
                                              "kms.*")>>] >>]}

FilterEntry(recs) ==
    [pc |-> "get", Records |-> recs, j |-> 0, rec |-> EmptyMap, reused |-> FALSE,
     failed |-> FALSE, out |-> <<>>, views |-> <<>>, decisions |-> <<>>,
     err |-> "none"]

\* rec := recordMapPool.Get().(map[string]any): a map of the pool, or the
\* map New makes.
PoolGet(g) ==
    /\ fr[g].pc = "get"
    /\ fr[g].j < Len(fr[g].Records)
    /\ \/ \E m \in mapPool :
             /\ mapPool' = mapPool \ {m}
             /\ fr' = [fr EXCEPT ![g].rec = m, ![g].reused = TRUE, ![g].pc = "unmarshal"]
       \/ /\ mapPool' = mapPool
          /\ fr' = [fr EXCEPT ![g].rec = EmptyMap, ![g].reused = FALSE,
                              ![g].pc = "unmarshal"]
    /\ UNCHANGED notPool

\* err := json.Unmarshal(inct.Records[j], &rec)
PoolUnmarshal(g) ==
    /\ fr[g].pc = "unmarshal"
    /\ LET u == Unmarshal(fr[g].Records[fr[g].j + 1], fr[g].rec)
       IN fr' = IF u.err # "nil"
                THEN [fr EXCEPT ![g].rec = u.rec, ![g].failed = TRUE,
                                ![g].err = "unmarshal record failed",
                                ![g].pc = "clear"]
                ELSE [fr EXCEPT ![g].rec = u.rec,
                                ![g].views = Append(@, u.rec), ![g].pc = "eval"]
    /\ UNCHANGED <<mapPool, notPool>>

\* match, dropEvent, err := cachedCfg.EvalRules(rec), and the record kept
\* or dropped.
PoolEval(g) ==
    /\ fr[g].pc = "eval"
    /\ LET e == EvalRules(cc, fr[g].rec)
       IN fr' = IF e.err # "nil"
                THEN [fr EXCEPT ![g].failed = TRUE, ![g].err = e.err, ![g].pc = "clear"]
                ELSE [fr EXCEPT ![g].decisions =
                                    Append(@, [match |-> e.match, dropEvent |-> e.dropEvent]),
                                ![g].out = IF e.match THEN @
                                           ELSE Append(@, fr[g].Records[fr[g].j + 1]),
                                ![g].pc = "clear"]
    /\ UNCHANGED <<mapPool, notPool>>

\* for k := range rec { delete(rec, k) }
PoolClear(g) ==
    /\ fr[g].pc = "clear"
    /\ fr' = [fr EXCEPT ![g].rec = ClearMap(fr[g].rec), ![g].pc = "put"]
    /\ UNCHANGED <<mapPool, notPool>>

\* recordMapPool.Put(rec); then the next record, or the return of the error.
PoolPut(g) ==
    /\ fr[g].pc = "put"
    /\ mapPool' = mapPool \cup {fr[g].rec}
    /\ fr' = IF fr[g].failed
             THEN [fr EXCEPT ![g].pc = "done"]
             ELSE [fr EXCEPT ![g].j = @ + 1, ![g].pc = "get"]
    /\ UNCHANGED notPool

\* return outCloudTrail, nil
PoolReturn(g) ==
    /\ fr[g].pc = "get"
    /\ fr[g].j >= Len(fr[g].Records)
    /\ fr' = [fr EXCEPT ![g].err = "nil", ![g].pc = "done"]
    /\ UNCHANGED <<mapPool, notPool>>

(***************************************************************************)
(* IsRetryable and contains, called on their own.                          *)
(***************************************************************************)
\* Error texts: each pattern alone, after a prefix, before a suffix and
\* between both; the patterns in another case; patterns cut short; texts
\* of the tests; the empty text.
RetryableTexts ==
    {pre \o retryablePatterns[k] \o suf :
        pre \in {"", "x", "dial tcp: "}, k \in 1..Len(retryablePatterns),
        suf \in {"", "y", ": Rate exceeded"}}
    \cup {"", "Timeout", "TIMEOUT", "timeou", "imeout", "time out", "xtimeouy",
          "connection  refused", "Connection Refused", "throttlingexception",
          "serviceunavailable", "ServiceUnavailabl", "toomanyrequests",
          "request timeout", "invalid parameter", "non-retryable", "t", "no such hos"}

RetryableErrors == {NoError} \cup {New(text) : text \in RetryableTexts}

\* IsRetryable(err)
CallIsRetryable ==
    /\ ~retval.called
    /\ retval' = [called |-> TRUE, op |-> "IsRetryable", result |-> IsRetryable(args.err),
                  contains |-> <<>>]
    /\ UNCHANGED <<args, notCall>>

\* contains(errStr, pattern), for each of the patterns
CallContains ==
    /\ ~retval.called
    /\ args.err # NoError
    /\ retval' = [called |-> TRUE, op |-> "contains", result |-> FALSE,
                  contains |-> [k \in 1..Len(retryablePatterns) |->
                                   contains(args.err.msg, retryablePatterns[k])]]
    /\ UNCHANGED <<args, notCall>>

(***************************************************************************)
(* CloudWatchMetrics: addMetric, Flush, the background flusher and Stop.   *)
(* A metric datum is its number in the order of recording.  What a call    *)
(* does while it holds cwm.mu is one step.                                 *)
(***************************************************************************)
cwmBatchSize == 20

MaxMetrics == 21
MaxFlushCalls == 1

FlushSources == {"ticker", "auto", "handler", "stop"}

\* addMetric: append under the lock, and start an auto-flush goroutine when
\* the buffer has reached batchSize.
addMetric ==
    /\ nextMetric <= MaxMetrics
    /\ cwmMetrics' = Append(cwmMetrics, nextMetric)
    /\ nextMetric' = nextMetric + 1
    /\ IF Len(cwmMetrics') >= cwmBatchSize
       THEN autoStarted' = autoStarted + 1 /\ autoPending' = autoPending + 1
       ELSE UNCHANGED <<autoStarted, autoPending>>
    /\ UNCHANGED <<flushing, taken, sent, maxBatch, flushCalls, cwmStop, notMetrics>>

\* Who may call Flush now: an auto-flush goroutine that was started; the
\* ticker goroutine, one call at a time, until stopCh is closed; a handler;
\* Stop, once the ticker goroutine has returned.
MayFlush(src) ==
    CASE src = "auto" -> autoPending > 0
      [] src = "ticker" -> /\ cwmStop = "running"
                           /\ flushCalls < MaxFlushCalls
                           /\ ~\E f \in flushing : f.src = "ticker"
      [] src = "handler" -> cwmStop = "running" /\ flushCalls < MaxFlushCalls
      [] OTHER -> cwmStop = "stopping" /\ ~\E f \in flushing : f.src = "ticker"

\* What the call leaves of the counters.
FlushCalled(src) ==
    /\ autoPending' = IF src = "auto" THEN autoPending - 1 ELSE autoPending
    /\ flushCalls' = IF src \in {"ticker", "handler"} THEN flushCalls + 1 ELSE flushCalls
    /\ cwmStop' = IF src = "stop" THEN "stopped" ELSE cwmStop

\* Flush that copies the buffer and leaves it as it is.
FlushTakeKeepingBuffer(src) ==
    /\ MayFlush(src)
    /\ FlushCalled(src)
    /\ IF Len(cwmMetrics) = 0
       THEN UNCHANGED <<flushing, taken>>
       ELSE /\ flushing' = flushing \cup {[src |-> src, metricsToSend |-> cwmMetrics, i |-> 0]}
            /\ taken' = [m \in DOMAIN taken |->
                            IF \E k \in 1..Len(cwmMetrics) : cwmMetrics[k] = m
                            THEN taken[m] + 1 ELSE taken[m]]
    /\ UNCHANGED <<cwmMetrics, nextMetric, autoStarted, sent, maxBatch, notMetrics>>

\* Flush, under the lock: return when the buffer is empty, otherwise copy
\* the buffer into metricsToSend and cut the buffer to length 0.
FlushTake(src) ==
    /\ MayFlush(src)
    /\ FlushCalled(src)
    /\ IF Len(cwmMetrics) = 0
       THEN UNCHANGED <<cwmMetrics, flushing, taken>>
       ELSE /\ flushing' = flushing \cup {[src |-> src, metricsToSend |-> cwmMetrics, i |-> 0]}
            /\ taken' = [m \in DOMAIN taken |->
                            IF \E k \in 1..Len(cwmMetrics) : cwmMetrics[k] = m
                            THEN taken[m] + 1 ELSE taken[m]]
            /\ cwmMetrics' = <<>>
    /\ UNCHANGED <<nextMetric, autoStarted, sent, maxBatch, notMetrics>>

\* batch := metricsToSend[i:end], with end := min(i+batchSize, len)
FlushBatch(f) ==
    SubSeq(f.metricsToSend, f.i + 1, Min(f.i + cwmBatchSize, Len(f.metricsToSend)))

\* One PutMetricData that succeeds; after the last batch Flush returns nil.
FlushSend(f) ==
    /\ f \in flushing
    /\ LET batch == FlushBatch(f)
           g == [f EXCEPT !.i = f.i + cwmBatchSize]
       IN /\ sent' = [m \in DOMAIN sent |->
                         IF \E k \in 1..Len(batch) : batch[k] = m
                         THEN sent[m] + 1 ELSE sent[m]]
          /\ maxBatch' = IF Len(batch) > maxBatch THEN Len(batch) ELSE maxBatch
          /\ flushing' = IF g.i < Len(f.metricsToSend)
                         THEN (flushing \ {f}) \cup {g}
                         ELSE flushing \ {f}
    /\ UNCHANGED <<cwmMetrics, nextMetric, autoStarted, autoPending, taken, flushCalls,
                   cwmStop, notMetrics>>

\* PutMetricData fails: Flush returns the error, the rest is not sent.
FlushSendFail(f) ==
    /\ f \in flushing
    /\ flushing' = flushing \ {f}
    /\ UNCHANGED <<cwmMetrics, nextMetric, autoStarted, autoPending, taken, sent, maxBatch,
                   flushCalls, cwmStop, notMetrics>>

\* Stop: close(cwm.stopCh); the final Flush follows cwm.wg.Wait().
StopClose ==
    /\ cwmStop = "running"
    /\ cwmStop' = "stopping"
    /\ UNCHANGED <<cwmMetrics, nextMetric, autoStarted, autoPending, flushing, taken, sent,
                   maxBatch, flushCalls, notMetrics>>

(***************************************************************************)
(* The cold start: init() starts performAsyncInitialization in a           *)
(* goroutine, and the runtime calls Handler for each invocation in turn.   *)
(***************************************************************************)
MaxInvocations == 2

InitEnvs ==
    [aws : {"ok", "fail"}, preload : {"ok", "fail", "not cached"}, metrics : BOOLEAN]

\* The package variables before init() has run.
ZeroGlobals ==
    [initError |-> "nil", awsCfg |-> "zero", s3Client |-> "nil", configLoader |-> "nil",
     cachedRules |-> "nil", cwMetrics |-> "nil"]

\* performAsyncInitialization reaches initOnce.Do: the first caller runs its
\* function, a caller that finds the Once done returns at once, and a caller
\* that finds it running waits.
InitOnceDo ==
    /\ ipc = "spawned"
    /\ initOnce # "running"
    /\ IF initOnce = "fresh"
       THEN initOnce' = "running" /\ ipc' = "aws"
       ELSE initOnce' = initOnce /\ ipc' = "returned"
    /\ UNCHANGED <<initEnv, bodyDone, globals, hpc, hsynced, handled, notCold>>

\* awsconfig.LoadDefaultConfig, and the return on its error
InitLoadDefaultConfig ==
    /\ ipc = "aws"
    /\ IF initEnv.aws = "fail"
       THEN /\ globals' = [globals EXCEPT !.initError = "failed to load AWS configuration"]
            /\ ipc' = "end"
       ELSE /\ globals' = [globals EXCEPT !.awsCfg = "loaded"]
            /\ ipc' = "clients"
    /\ UNCHANGED <<initEnv, initOnce, bodyDone, hpc, hsynced, handled, notCold>>

\* s3.NewFromConfig and config.CreateLoaderFromEnv
InitClients ==
    /\ ipc = "clients"
    /\ globals' = [globals EXCEPT !.s3Client = "client", !.configLoader = "loader"]
    /\ ipc' = "preload"
    /\ UNCHANGED <<initEnv, initOnce, bodyDone, hpc, hsynced, handled, notCold>>

\* the pre-load through a CachedConfigLoader
InitPreload ==
    /\ ipc = "preload"
    /\ globals' = [globals EXCEPT
                      !.cachedRules = IF initEnv.preload = "ok" THEN "rules" ELSE @]
    /\ ipc' = "metrics"
    /\ UNCHANGED <<initEnv, initOnce, bodyDone, hpc, hsynced, handled, notCold>>

\* metrics.NewCloudWatchMetrics when METRICS_ENABLED is true
InitMetricsClient ==
    /\ ipc = "metrics"
    /\ globals' = [globals EXCEPT
                      !.cwMetrics = IF initEnv.metrics THEN "metrics" ELSE @]
    /\ ipc' = "end"
    /\ UNCHANGED <<initEnv, initOnce, bodyDone, hpc, hsynced, handled, notCold>>

\* the function returns and initOnce.Do marks the Once done
InitOnceReturn ==
    /\ ipc = "end"
    /\ initOnce' = "done"
    /\ bodyDone' = TRUE
    /\ ipc' = "returned"
    /\ UNCHANGED <<initEnv, globals, hpc, hsynced, handled, notCold>>

\* The runtime calls Handler.
HandlerInvoke ==
    /\ hpc = "idle"
    /\ Len(handled) < MaxInvocations
    /\ hpc' = "check"
    /\ UNCHANGED <<initEnv, initOnce, ipc, bodyDone, globals, hsynced, handled, notCold>>

\* What the read of initError can return: the variable as it stands, or, as
\* long as nothing orders this goroutine after the writer, its zero value.
InitErrorReads ==
    IF hsynced THEN {globals.initError} ELSE {globals.initError, "nil"}

\* if initError != nil { return ... }
HandlerCheckInitError ==
    /\ hpc = "check"
    /\ \E e \in InitErrorReads :
          IF e # "nil"
          THEN /\ handled' = Append(handled, [out |-> "initialization failed",
                                              bodyDone |-> bodyDone,
                                              configLoader |-> globals.configLoader,
                                              initError |-> globals.initError])
               /\ hpc' = "idle"
          ELSE /\ handled' = handled
               /\ hpc' = "once"
    /\ UNCHANGED <<initEnv, initOnce, ipc, bodyDone, globals, hsynced, notCold>>

\* initOnce.Do(func() {})
HandlerOnceDo ==
    /\ hpc = "once"
    /\ initOnce # "running"
    /\ initOnce' = "done"
    /\ hsynced' = TRUE
    /\ hpc' = "refresh"
    /\ UNCHANGED <<initEnv, ipc, bodyDone, globals, handled, notCold>>

\* The rest of Handler, from refreshConfigurationIfNeeded on: with no cached
\* rules it calls configLoader.Load, and the copier is built on s3Client.
HandlerUse ==
    /\ hpc = "refresh"
    /\ handled' = Append(handled,
                         [out |-> IF globals.cachedRules = "nil"
                                     /\ globals.configLoader = "nil"
                                  THEN "panic: nil pointer dereference"
                                  ELSE "processed",
                          bodyDone |-> bodyDone,
                          configLoader |-> globals.configLoader,
                          initError |-> globals.initError])
    /\ hpc' = "idle"
    /\ UNCHANGED <<initEnv, initOnce, ipc, bodyDone, globals, hsynced, notCold>>

(***************************************************************************)
(* The two retry loops of one invocation: retry.DoTyped around             *)
(* processor.Handler in Handler, and retry.Do around CopyWithCachedRules   *)
(* in OptimizedCopier.Copy, which Processor.Handler calls for each key.    *)
(***************************************************************************)
MaxKeys == 2

handlerMaxRetries == 2
copyMaxRetries == 3

\* fmt.Errorf(prefix + ": %w", err), with the text Error() returns.
Wrap(prefix, err) == [msg |-> prefix \o ": " \o err.msg, wraps |-> err.msg]

\* What CopyWithCachedRules returns: nil, an error with a transient cause, or
\* an error no retry mends.
PipelineOutcomes ==
    {NoError,
     Wrap("failed to download and decode source JSON file", New("connection reset")),
     Wrap("failed to filter records", New("failed to unmarshal record"))}

\* DoTyped's loop: the test of ctx.Done(), then fn(), that is processor.Handler
\* from its first key.
DoTypedAttempt ==
    /\ npc = "outer"
    /\ IF nCtx = "cancelled"
       THEN /\ nRet' = Wrap("context cancelled", New("context canceled"))
            /\ npc' = "done"
            /\ UNCHANGED <<nObj, nInner>>
       ELSE /\ nObj' = 1
            /\ nInner' = 0
            /\ npc' = "keys"
            /\ UNCHANGED nRet
    /\ UNCHANGED <<nKeys, nOuter, nErr, nCtx, nAttempts, nCopied, notNest>>

\* The loop over the event's keys in Processor.Handler: Copy for the key, or
\* the return of nil, with which DoTyped returns.
ProcessorNextKey ==
    /\ npc = "keys"
    /\ IF nObj > nKeys
       THEN /\ nRet' = NoError
            /\ npc' = "done"
            /\ UNCHANGED nInner
       ELSE /\ nInner' = 0
            /\ npc' = "inner"
            /\ UNCHANGED nRet
    /\ UNCHANGED <<nKeys, nOuter, nObj, nErr, nCtx, nAttempts, nCopied, notNest>>

\* The loop of Do in Copy: the test of ctx.Done(), then CopyWithCachedRules
\* and what follows its result.  An error of Copy is returned by
\* Processor.Handler as it is.
CopyLoopAttempt ==
    /\ npc = "inner"
    /\ IF nCtx = "cancelled"
       THEN /\ nErr' = Wrap("context cancelled", New("context canceled"))
            /\ npc' = "failed"
            /\ UNCHANGED <<nObj, nAttempts, nCopied>>
       ELSE \E err \in PipelineOutcomes :
               /\ nAttempts' = [nAttempts EXCEPT ![nObj] = @ + 1]
               /\ IF err = NoError
                  THEN /\ nCopied' = [nCopied EXCEPT ![nObj] = @ + 1]
                       /\ nObj' = nObj + 1
                       /\ npc' = "keys"
                       /\ UNCHANGED nErr
                  ELSE /\ UNCHANGED <<nCopied, nObj>>
                       /\ IF ~IsRetryable(err)
                          THEN nErr' = err /\ npc' = "failed"
                          ELSE IF nInner = copyMaxRetries
                          THEN /\ nErr' = Wrap("operation failed after 3 retries", err)
                               /\ npc' = "failed"
                          ELSE nErr' = nErr /\ npc' = "innerSleep"
    /\ UNCHANGED <<nKeys, nOuter, nInner, nCtx, nRet, notNest>>

\* The select after a failed attempt of Copy's loop: the delay passes, or
\* the context is done.
CopyLoopBackoff ==
    /\ npc = "innerSleep"
    /\ IF nCtx = "cancelled"
       THEN /\ nErr' = Wrap("context cancelled during retry", New("context canceled"))
            /\ npc' = "failed"
            /\ UNCHANGED nInner
       ELSE /\ nInner' = nInner + 1
            /\ npc' = "inner"
            /\ UNCHANGED nErr
    /\ UNCHANGED <<nKeys, nOuter, nObj, nCtx, nAttempts, nCopied, nRet, notNest>>

\* DoTyped on the error of processor.Handler: not retryable, the last attempt,
\* or a delay before the next.
DoTypedFailed ==
    /\ npc = "failed"
    /\ IF ~IsRetryable(nErr)
       THEN nRet' = nErr /\ npc' = "done"
       ELSE IF nOuter = handlerMaxRetries
       THEN /\ nRet' = Wrap("operation failed after 2 retries", nErr)
            /\ npc' = "done"
       ELSE nRet' = nRet /\ npc' = "outerSleep"
    /\ UNCHANGED <<nKeys, nOuter, nInner, nObj, nErr, nCtx, nAttempts, nCopied,
                   notNest>>

\* The select after a failed attempt of DoTyped's loop.
DoTypedBackoff ==
    /\ npc = "outerSleep"
    /\ IF nCtx = "cancelled"
       THEN /\ nRet' = Wrap("context cancelled during retry", New("context canceled"))
            /\ npc' = "done"
            /\ UNCHANGED nOuter
       ELSE /\ nOuter' = nOuter + 1
            /\ npc' = "outer"
            /\ UNCHANGED nRet
    /\ UNCHANGED <<nKeys, nInner, nObj, nErr, nCtx, nAttempts, nCopied, notNest>>

\* The invocation's deadline passes.
ContextDone ==
    /\ npc \notin {"idle", "done"}
    /\ nCtx = "live"
    /\ nCtx' = "cancelled"
    /\ UNCHANGED <<nKeys, npc, nOuter, nInner, nObj, nErr, nAttempts, nCopied, nRet,
                   notNest>>

(***************************************************************************)
(* The specifications.                                                     *)
(***************************************************************************)
EvalIdle ==
    /\ evt = EmptyMap
    /\ lastCall = NoCall

FileIdle ==
    /\ pc = "idle"
    /\ blob = <<>>
    /\ inct = <<>>
    /\ outct = <<>>
    /\ fi = 0
    /\ fj = 0
    /\ recordMapPool = {}
    /\ filterRet = NoReturn
    /\ gpc = "none"
    /\ wLeft = 0
    /\ pipePending = FALSE
    /\ pwClosed = FALSE
    /\ ujError = "nil"
    /\ uploadErr = "pending"
    /\ joined = "no"
    /\ doneClosed = FALSE
    /\ ret = "none"

StreamIdle ==
    /\ doc = [records |-> <<>>, layout |-> "none", tail |-> "none"]
    /\ sc = <<>>
    /\ line = <<>>
    /\ pos = 1
    /\ foundRecords = FALSE
    /\ inRecordsArray = FALSE
    /\ bracketDepth = 0
    /\ recordBuffer = <<>>
    /\ firstRecord = TRUE
    /\ output = <<>>
    /\ result = [ProcessedCount |-> 0, FilteredCount |-> 0]
    /\ recordErrors = 0
    /\ emitted = <<>>
    /\ sCancelled = FALSE
    /\ spc = "idle"
    /\ sret = "none"

RegexCacheIdle ==
    /\ patterns = <<>>
    /\ regexMu = [writer |-> "none", readers |-> {}]
    /\ nextRe = 1
    /\ rg = <<>>
    /\ returned = {}
    /\ regexCalls = <<>>

PrepareIdle ==
    /\ srcCfg = [Rules |-> <<>>]
    /\ validOut = "none"
    /\ prepOut = NotCalled

LoaderIdle ==
    /\ now = 0
    /\ ttl = 0
    /\ lconfig = Nil
    /\ lcachedRules = Nil
    /\ lastLoaded = 0
    /\ loaderMu = [writer |-> "none", readers |-> {}]
    /\ lc = <<>>
    /\ loadCount = 0
    /\ lastOk = [id |-> 0, end |-> 0]
    /\ loadCalls = <<>>

RetryIdle ==
    /\ rop = "Do"
    /\ ropts = <<>>
    /\ rcfg = [MaxRetries |-> 0, RetryableError |-> "always"]
    /\ rctx = "nil"
    /\ attempt = 0
    /\ lastErr = NoError
    /\ rpc = "idle"
    /\ rtrace = <<>>
    /\ rret = NotReturned

CallIdle ==
    /\ args = <<>>
    /\ retval = NotYetCalled

HandlerIdle ==
    /\ cachedRules = 0
    /\ lastConfigLoad = 0
    /\ configMutex = "free"
    /\ clock = 0
    /\ nextSnapshot = 1
    /\ hd = <<>>

PoolIdle ==
    /\ mapPool = {}
    /\ fr = <<>>

MetricsIdle ==
    /\ cwmMetrics = <<>>
    /\ nextMetric = 1
    /\ autoStarted = 0
    /\ autoPending = 0
    /\ flushing = {}
    /\ taken = <<>>
    /\ sent = <<>>
    /\ maxBatch = 0
    /\ flushCalls = 0
    /\ cwmStop = "idle"

ColdIdle ==
    /\ initEnv = <<>>
    /\ initOnce = "fresh"
    /\ ipc = "none"
    /\ bodyDone = FALSE
    /\ globals = <<>>
    /\ hpc = "idle"
    /\ hsynced = FALSE
    /\ handled = <<>>

NestIdle ==
    /\ nKeys = 0
    /\ npc = "idle"
    /\ nOuter = 0
    /\ nInner = 0
    /\ nObj = 0
    /\ nErr = NoError
    /\ nCtx = "live"
    /\ nAttempts = <<>>
    /\ nCopied = <<>>
    /\ nRet = NoError

BatchIdle ==
    /\ batchInput = <<>>
    /\ workers = <<>>
    /\ results = <<>>
    /\ errors = <<>>
    /\ chClosed = FALSE
    /\ batchOutput = <<>>
    /\ filteredCount = 0
    /\ bCancelled = FALSE
    /\ bpc = "idle"
    /\ bret = "none"

\* The evaluator on every record and rule set of the bounds.
EvalInit ==
    /\ NestIdle
    /\ ColdIdle
    /\ MetricsIdle
    /\ PoolIdle
    /\ HandlerIdle
    /\ CallIdle
    /\ RetryIdle
    /\ LoaderIdle
    /\ PrepareIdle
    /\ RegexCacheIdle
    /\ evt \in Events
    /\ cc \in Configs
    /\ lastCall = NoCall
    /\ FileIdle
    /\ StreamIdle
    /\ BatchIdle

EvalNext == CallFieldExists \/ CallEval \/ CallEvalRules

SpecEval == EvalInit /\ [][EvalNext]_vars

\* One call of processFileWithCachedRules.
Init ==
    /\ NestIdle
    /\ ColdIdle
    /\ MetricsIdle
    /\ PoolIdle
    /\ HandlerIdle
    /\ CallIdle
    /\ RetryIdle
    /\ LoaderIdle
    /\ PrepareIdle
    /\ RegexCacheIdle
    /\ EvalIdle
    /\ StreamIdle
    /\ BatchIdle
    /\ cc \in FileConfigs
    /\ pc = "download"
    /\ blob \in InputBlobs
    /\ inct = <<>>
    /\ outct = <<>>
    /\ fi = 0
    /\ fj = 0
    /\ recordMapPool = {}
    /\ filterRet = NoReturn
    /\ gpc = "none"
    /\ wLeft = 0
    /\ pipePending = FALSE
    /\ pwClosed = FALSE
    /\ ujError = "nil"
    /\ uploadErr = "pending"
    /\ joined = "no"
    /\ doneClosed = FALSE
    /\ ret = "none"

Next ==
    \/ Download
    \/ FilterBegin
    \/ FilterRecord
    \/ FilterNextBatch
    \/ FilterReturn
    \/ StartEncoder
    \/ GoEncode
    \/ GoWrite
    \/ GoEncoded
    \/ GoClose
    \/ GoPanic
    \/ GoSendOnClosed
    \/ UploadRead
    \/ UploadDone
    \/ UploadFail
    \/ AwaitDone
    \/ AwaitTimeout
    \/ Return

Spec == Init /\ [][Next]_vars

\* The steps processFileWithCachedRules takes once the goroutine is started
\* (Upload's reads, the select with its timer, the return), and the steps of
\* the encoder goroutine.  A step that is ready is taken in the end; a failing
\* Upload and a panic are faults that need not happen.
MainStep == UploadRead \/ UploadDone \/ AwaitDone \/ AwaitTimeout \/ Return

EncoderStep == GoEncode \/ GoWrite \/ GoEncoded \/ GoClose \/ GoSendOnClosed

SpecFair == Init /\ [][Next]_vars /\ WF_vars(MainStep) /\ WF_vars(EncoderStep)

\* One call of ProcessStream, uncompressed.
StreamInit ==
    /\ NestIdle
    /\ ColdIdle
    /\ MetricsIdle
    /\ PoolIdle
    /\ HandlerIdle
    /\ CallIdle
    /\ RetryIdle
    /\ LoaderIdle
    /\ PrepareIdle
    /\ RegexCacheIdle
    /\ EvalIdle
    /\ FileIdle
    /\ BatchIdle
    /\ cc = StreamConfig
    /\ doc \in Docs
    /\ sc = DocBytes(doc)
    /\ line = <<>>
    /\ pos = 1
    /\ foundRecords = FALSE
    /\ inRecordsArray = FALSE
    /\ bracketDepth = 0
    /\ recordBuffer = <<>>
    /\ firstRecord = TRUE
    /\ output = <<>>
    /\ result = [ProcessedCount |-> 0, FilteredCount |-> 0]
    /\ recordErrors = 0
    /\ emitted = <<>>
    /\ sCancelled = FALSE
    /\ spc = "start"
    /\ sret = "none"

StreamNext ==
    \/ StreamStart
    \/ StreamScanLine
    \/ StreamByte
    \/ StreamEndLine
    \/ StreamFinish
    \/ StreamScanError
    \/ StreamCancel

SpecStream == StreamInit /\ [][StreamNext]_vars

\* One call of ProcessStream on a well-formed document in each line layout.
LayoutInit ==
    /\ NestIdle
    /\ ColdIdle
    /\ MetricsIdle
    /\ PoolIdle
    /\ HandlerIdle
    /\ CallIdle
    /\ RetryIdle
    /\ LoaderIdle
    /\ PrepareIdle
    /\ RegexCacheIdle
    /\ EvalIdle
    /\ FileIdle
    /\ BatchIdle
    /\ cc = StreamConfig
    /\ doc \in LayoutDocs
    /\ sc = DocBytes(doc)
    /\ line = <<>>
    /\ pos = 1
    /\ foundRecords = FALSE
    /\ inRecordsArray = FALSE
    /\ bracketDepth = 0
    /\ recordBuffer = <<>>
    /\ firstRecord = TRUE
    /\ output = <<>>
    /\ result = [ProcessedCount |-> 0, FilteredCount |-> 0]
    /\ recordErrors = 0
    /\ emitted = <<>>
    /\ sCancelled = FALSE
    /\ spc = "start"
    /\ sret = "none"

SpecLayout == LayoutInit /\ [][StreamNext]_vars

\* One call of ProcessBatch.
BatchInit ==
    /\ NestIdle
    /\ ColdIdle
    /\ MetricsIdle
    /\ PoolIdle
    /\ HandlerIdle
    /\ CallIdle
    /\ RetryIdle
    /\ LoaderIdle
    /\ PrepareIdle
    /\ RegexCacheIdle
    /\ EvalIdle
    /\ FileIdle
    /\ StreamIdle
    /\ cc \in FileConfigs
    /\ batchInput \in InputBlobs
    /\ workers = <<>>
    /\ results = <<>>
    /\ errors = <<>>
    /\ chClosed = FALSE
    /\ batchOutput = <<>>
    /\ filteredCount = 0
    /\ bCancelled = FALSE
    /\ bpc = "start"
    /\ bret = "none"

BatchNext ==
    \/ BatchSpawn
    \/ \E k \in 1..numBatches(MaxRecords) : BatchWorkerStep(k)
    \/ \E k \in 1..numBatches(MaxRecords) : BatchWorkerSend(k)
    \/ BatchWaiterClose
    \/ BatchCollect
    \/ BatchReturn
    \/ BatchCancel

SpecBatch == BatchInit /\ [][BatchNext]_vars

\* Every goroutine of ProcessBatch that can take a step takes it in the end;
\* the cancellation of the context need not happen.
SpecBatchFair ==
    /\ BatchInit
    /\ [][BatchNext]_vars
    /\ WF_vars(BatchSpawn)
    /\ \A k \in 1..numBatches(MaxRecords) :
           WF_vars(BatchWorkerStep(k) \/ BatchWorkerSend(k))
    /\ WF_vars(BatchWaiterClose)
    /\ WF_vars(BatchCollect \/ BatchReturn)

\* Goroutines calling getOrCompileRegex on an empty cache.
RegexInit ==
    /\ NestIdle
    /\ ColdIdle
    /\ MetricsIdle
    /\ PoolIdle
    /\ HandlerIdle
    /\ CallIdle
    /\ RetryIdle
    /\ LoaderIdle
    /\ PrepareIdle
    /\ EvalIdle
    /\ FileIdle
    /\ StreamIdle
    /\ BatchIdle
    /\ cc = [Rules |-> <<>>]
    /\ patterns = <<>>
    /\ regexMu = [writer |-> "none", readers |-> {}]
    /\ nextRe = 1
    /\ rg = [g \in RegexCallers |-> RegexCallerIdle]
    /\ returned = {}
    /\ regexCalls = [g \in RegexCallers |-> 0]

RegexNext ==
    \E g \in RegexCallers :
        \/ RegexCall(g)
        \/ RegexRLock(g)
        \/ RegexRead(g)
        \/ RegexLock(g)
        \/ RegexStore(g)

SpecRegex == RegexInit /\ [][RegexNext]_vars

\* Validate and PrepareConfiguration on every configuration of the bounds,
\* with the regex cache empty or holding a pattern already.
PrepareInit ==
    /\ NestIdle
    /\ ColdIdle
    /\ MetricsIdle
    /\ PoolIdle
    /\ HandlerIdle
    /\ CallIdle
    /\ RetryIdle
    /\ LoaderIdle
    /\ EvalIdle
    /\ FileIdle
    /\ StreamIdle
    /\ BatchIdle
    /\ cc = [Rules |-> <<>>]
    /\ \/ patterns = <<>> /\ nextRe = 1
       \/ patterns = [p \in {"kms.*"} |-> 1] /\ nextRe = 2
    /\ regexMu = [writer |-> "none", readers |-> {}]
    /\ rg = <<>>
    /\ returned = {}
    /\ regexCalls = <<>>
    /\ srcCfg \in SourceConfigs
    /\ validOut = "none"
    /\ prepOut = NotCalled

PrepareNext ==
    \/ CallValidate
    \/ CallPrepareConfiguration

SpecPrepare == PrepareInit /\ [][PrepareNext]_vars

\* Goroutines calling Load and LoadCached on a new CachedConfigLoader.
LoaderInit ==
    /\ NestIdle
    /\ ColdIdle
    /\ MetricsIdle
    /\ PoolIdle
    /\ HandlerIdle
    /\ CallIdle
    /\ RetryIdle
    /\ EvalIdle
    /\ FileIdle
    /\ StreamIdle
    /\ BatchIdle
    /\ RegexCacheIdle
    /\ PrepareIdle
    /\ cc = [Rules |-> <<>>]
    /\ now = 0
    /\ ttl \in Ttls
    /\ lconfig = Nil
    /\ lcachedRules = Nil
    /\ lastLoaded = 0
    /\ loaderMu = [writer |-> "none", readers |-> {}]
    /\ lc = [c \in LoadCallers |-> LoadCallerIdle]
    /\ loadCount = 0
    /\ lastOk = [id |-> 0, end |-> 0]
    /\ loadCalls = [c \in LoadCallers |-> 0]

LoaderNext ==
    \/ LoadTick
    \/ \E c \in LoadCallers :
          \/ LoadCall(c)
          \/ LoadRLock(c)
          \/ LoadFast(c)
          \/ LoadLock(c)
          \/ LoadRecheck(c)
          \/ LoadFail(c)
          \/ LoadDone(c)
          \/ LoadCachedRLock(c)
          \/ LoadCachedRead(c)

SpecLoader == LoaderInit /\ [][LoaderNext]_vars

\* One call of Do or DoTyped, with a context that may be cancelled at any
\* moment, before the call included.
RetryInit ==
    /\ NestIdle
    /\ ColdIdle
    /\ MetricsIdle
    /\ PoolIdle
    /\ HandlerIdle
    /\ CallIdle
    /\ EvalIdle
    /\ FileIdle
    /\ StreamIdle
    /\ BatchIdle
    /\ RegexCacheIdle
    /\ PrepareIdle
    /\ LoaderIdle
    /\ cc = [Rules |-> <<>>]
    /\ rop \in {"Do", "DoTyped"}
    /\ ropts \in RetryOptions
    /\ rcfg = ApplyOptions(ropts, DefaultConfig)
    /\ rctx = "nil"
    /\ attempt = 0
    /\ lastErr = NoError
    /\ rpc = "loop"
    /\ rtrace = <<>>
    /\ rret = NotReturned

RetryNext ==
    \/ RetryCancel
    \/ RetryLoop
    \/ RetryAttempt
    \/ RetryTimer
    \/ RetrySleepCancelled
    \/ RetryExhausted

SpecRetry == RetryInit /\ [][RetryNext]_vars

\* calculateDelay on every attempt, configuration and random value of the
\* bounds.
DelayInit ==
    /\ NestIdle
    /\ ColdIdle
    /\ MetricsIdle
    /\ PoolIdle
    /\ HandlerIdle
    /\ EvalIdle
    /\ FileIdle
    /\ StreamIdle
    /\ BatchIdle
    /\ RegexCacheIdle
    /\ PrepareIdle
    /\ LoaderIdle
    /\ RetryIdle
    /\ cc = [Rules |-> <<>>]
    /\ args \in [attempt : 0..MaxDelayAttempt, cfg : DelayConfigs,
                 rand : 0..(JitterSteps - 1)]
    /\ retval = NotYetCalled

DelayNext == CallCalculateDelay

SpecDelay == DelayInit /\ [][DelayNext]_vars

\* Validate and Load on every configuration of the bounds.
VersionedInit ==
    /\ NestIdle
    /\ ColdIdle
    /\ MetricsIdle
    /\ PoolIdle
    /\ HandlerIdle
    /\ EvalIdle
    /\ FileIdle
    /\ StreamIdle
    /\ BatchIdle
    /\ RegexCacheIdle
    /\ PrepareIdle
    /\ LoaderIdle
    /\ RetryIdle
    /\ cc = [Rules |-> <<>>]
    /\ args \in VersionedConfigs
    /\ retval = NotYetCalled

VersionedNext == CallVersionedValidate \/ CallLoad

SpecVersioned == VersionedInit /\ [][VersionedNext]_vars

\* ValidateIsRegex and Load on every pattern text of the regex screen.
IsRegexInit ==
    /\ NestIdle
    /\ ColdIdle
    /\ MetricsIdle
    /\ PoolIdle
    /\ HandlerIdle
    /\ EvalIdle
    /\ FileIdle
    /\ StreamIdle
    /\ BatchIdle
    /\ RegexCacheIdle
    /\ PrepareIdle
    /\ LoaderIdle
    /\ RetryIdle
    /\ cc = [Rules |-> <<>>]
    /\ args \in ScreenConfigs
    /\ retval = NotYetCalled

IsRegexNext == CallValidateIsRegex \/ CallLoad

SpecIsRegex == IsRegexInit /\ [][IsRegexNext]_vars

\* LocalConfigLoader.Load and ReadFileContents on every path and file.
LocalInit ==
    /\ NestIdle
    /\ ColdIdle
    /\ MetricsIdle
    /\ PoolIdle
    /\ HandlerIdle
    /\ EvalIdle
    /\ FileIdle
    /\ StreamIdle
    /\ BatchIdle
    /\ RegexCacheIdle
    /\ PrepareIdle
    /\ LoaderIdle
    /\ RetryIdle
    /\ cc = [Rules |-> <<>>]
    /\ args \in [path : LocalPaths, file : LocalFiles]
    /\ retval = NotYetCalled

LocalNext == CallLocalLoad \/ CallReadFileContents

SpecLocal == LocalInit /\ [][LocalNext]_vars

\* The two downloads on every object.
DownloadInit ==
    /\ NestIdle
    /\ ColdIdle
    /\ MetricsIdle
    /\ PoolIdle
    /\ HandlerIdle
    /\ EvalIdle
    /\ FileIdle
    /\ StreamIdle
    /\ BatchIdle
    /\ RegexCacheIdle
    /\ PrepareIdle
    /\ LoaderIdle
    /\ RetryIdle
    /\ cc = [Rules |-> <<>>]
    /\ args \in S3Objects
    /\ retval = NotYetCalled

DownloadNext == CallDownloadCloudtrail \/ CallDownloadCloudtrailMultiPart

SpecDownload == DownloadInit /\ [][DownloadNext]_vars

\* Two invocations of Handler; the pre-load of init() succeeded or failed.
HandlerInit ==
    /\ NestIdle
    /\ ColdIdle
    /\ MetricsIdle
    /\ PoolIdle
    /\ EvalIdle
    /\ FileIdle
    /\ StreamIdle
    /\ BatchIdle
    /\ RegexCacheIdle
    /\ PrepareIdle
    /\ LoaderIdle
    /\ RetryIdle
    /\ CallIdle
    /\ cc = [Rules |-> <<>>]
    /\ cachedRules \in {0, 1}
    /\ nextSnapshot = cachedRules + 1
    /\ lastConfigLoad = 0
    /\ configMutex = "free"
    /\ clock = 0
    /\ hd = [i \in Requests |-> HandlerEntry]

HandlerNext ==
    \/ ClockTick
    \/ \E i \in Requests :
          \/ RefreshRead(i)
          \/ RefreshFresh(i)
          \/ RefreshLock(i)
          \/ RefreshRecheck(i)
          \/ RefreshLoadFail(i)
          \/ RefreshPublish(i)
          \/ RefreshStamp(i)
          \/ createOptimizedProcessor(i)
          \/ ProcessorHandler(i)
          \/ CopyEnsure(i)
          \/ CopyAttempt(i)
          \/ EvalRecord(i)
          \/ CopyDone(i)
          \/ CopyRetry(i)
          \/ CopyFail(i)
          \/ HandlerRetry(i)
          \/ HandlerFail(i)

SpecHandler == HandlerInit /\ [][HandlerNext]_vars

\* Two FilterRecords calls on one pool, which starts empty.
PoolInit ==
    /\ NestIdle
    /\ ColdIdle
    /\ MetricsIdle
    /\ EvalIdle
    /\ FileIdle
    /\ StreamIdle
    /\ BatchIdle
    /\ RegexCacheIdle
    /\ PrepareIdle
    /\ LoaderIdle
    /\ RetryIdle
    /\ CallIdle
    /\ HandlerIdle
    /\ cc \in PoolConfigs
    /\ mapPool = {}
    /\ \E r1 \in PoolInputs("f1"), r2 \in PoolInputs("f2") :
          fr = [g \in FilterCallers |-> FilterEntry(IF g = "f1" THEN r1 ELSE r2)]

PoolNext ==
    \E g \in FilterCallers :
        \/ PoolGet(g)
        \/ PoolUnmarshal(g)
        \/ PoolEval(g)
        \/ PoolClear(g)
        \/ PoolPut(g)
        \/ PoolReturn(g)

SpecPool == PoolInit /\ [][PoolNext]_vars

\* IsRetryable and contains on every error text.
RetryableInit ==
    /\ NestIdle
    /\ ColdIdle
    /\ MetricsIdle
    /\ EvalIdle
    /\ FileIdle
    /\ StreamIdle
    /\ BatchIdle
    /\ RegexCacheIdle
    /\ PrepareIdle
    /\ LoaderIdle
    /\ RetryIdle
    /\ HandlerIdle
    /\ PoolIdle
    /\ cc = [Rules |-> <<>>]
    /\ args \in [err : RetryableErrors]
    /\ retval = NotYetCalled

RetryableNext == CallIsRetryable \/ CallContains

SpecRetryable == RetryableInit /\ [][RetryableNext]_vars

\* A collector after NewCloudWatchMetrics, enabled.
MetricsInit ==
    /\ NestIdle
    /\ ColdIdle
    /\ EvalIdle
    /\ FileIdle
    /\ StreamIdle
    /\ BatchIdle
    /\ RegexCacheIdle
    /\ PrepareIdle
    /\ LoaderIdle
    /\ RetryIdle
    /\ CallIdle
    /\ HandlerIdle
    /\ PoolIdle
    /\ cc = [Rules |-> <<>>]
    /\ cwmMetrics = <<>>
    /\ nextMetric = 1
    /\ autoStarted = 0
    /\ autoPending = 0
    /\ flushing = {}
    /\ taken = [m \in 1..MaxMetrics |-> 0]
    /\ sent = [m \in 1..MaxMetrics |-> 0]
    /\ maxBatch = 0
    /\ flushCalls = 0
    /\ cwmStop = "running"

MetricsNext ==
    \/ addMetric
    \/ \E src \in FlushSources : FlushTake(src)
    \/ \E f \in flushing : FlushSend(f)
    \/ \E f \in flushing : FlushSendFail(f)
    \/ StopClose

SpecMetrics == MetricsInit /\ [][MetricsNext]_vars

\* Both evaluators on every record and every rule set that compiles.
EquivInit ==
    /\ NestIdle
    /\ ColdIdle
    /\ MetricsIdle
    /\ EvalIdle
    /\ FileIdle
    /\ StreamIdle
    /\ BatchIdle
    /\ RegexCacheIdle
    /\ PrepareIdle
    /\ LoaderIdle
    /\ RetryIdle
    /\ HandlerIdle
    /\ PoolIdle
    /\ cc = [Rules |-> <<>>]
    /\ args \in [cfg : CompilingConfigs, evt : Events]
    /\ retval = NotYetCalled

EquivNext == CallConfigurationEvalRules \/ CallCachedConfigurationEvalRules

SpecEquiv == EquivInit /\ [][EquivNext]_vars

\* A cold start: init() has run and the goroutine is started.
ColdInit ==
    /\ NestIdle
    /\ EvalIdle
    /\ FileIdle
    /\ StreamIdle
    /\ BatchIdle
    /\ RegexCacheIdle
    /\ PrepareIdle
    /\ LoaderIdle
    /\ RetryIdle
    /\ CallIdle
    /\ HandlerIdle
    /\ PoolIdle
    /\ MetricsIdle
    /\ cc = [Rules |-> <<>>]
    /\ initEnv \in InitEnvs
    /\ initOnce = "fresh"
    /\ ipc = "spawned"
    /\ bodyDone = FALSE
    /\ globals = ZeroGlobals
    /\ hpc = "idle"
    /\ hsynced = FALSE
    /\ handled = <<>>

ColdNext ==
    \/ InitOnceDo
    \/ InitLoadDefaultConfig
    \/ InitClients
    \/ InitPreload
    \/ InitMetricsClient
    \/ InitOnceReturn
    \/ HandlerInvoke
    \/ HandlerCheckInitError
    \/ HandlerOnceDo
    \/ HandlerUse

SpecCold == ColdInit /\ [][ColdNext]_vars

\* One invocation at retry.DoTyped, its event naming one or more keys.
NestInit ==
    /\ EvalIdle
    /\ FileIdle
    /\ StreamIdle
    /\ BatchIdle
    /\ RegexCacheIdle
    /\ PrepareIdle
    /\ LoaderIdle
    /\ RetryIdle
    /\ CallIdle
    /\ HandlerIdle
    /\ PoolIdle
    /\ MetricsIdle
    /\ ColdIdle
    /\ cc = [Rules |-> <<>>]
    /\ nKeys \in 1..MaxKeys
    /\ npc = "outer"
    /\ nOuter = 0
    /\ nInner = 0
    /\ nObj = 0
    /\ nErr = NoError
    /\ nCtx = "live"
    /\ nAttempts = [k \in 1..nKeys |-> 0]
    /\ nCopied = [k \in 1..nKeys |-> 0]
    /\ nRet = NoError

NestNext ==
    \/ DoTypedAttempt
    \/ ProcessorNextKey
    \/ CopyLoopAttempt
    \/ CopyLoopBackoff
    \/ DoTypedFailed
    \/ DoTypedBackoff
    \/ ContextDone

SpecNest == NestInit /\ [][NestNext]_vars

(***************************************************************************)
(* The evaluator's claims.  A path resolves by the walk below, stated on    *)
(* the path's segments and independent of findField.                       *)
(***************************************************************************)
Missing == [kind |-> "missing", v |-> ""]

\* The value reached after the first k segments of segs, starting at map m.
RECURSIVE Walk(_, _, _)
Walk(m, segs, k) ==
    IF k = 0 THEN JMap(m)
    ELSE LET prev == Walk(m, segs, k - 1) IN
         IF prev.kind = "map" /\ segs[k] \in DOMAIN prev.v
         THEN prev.v[segs[k]]
         ELSE Missing

SegsOf(fieldName) == CHOOSE segs \in Paths : Join(segs) = fieldName

Resolved(m, event) ==
    LET segs == SegsOf(m.FieldName) IN Walk(event, segs, Len(segs))

EntryMatches(m, event) ==
    LET val == Resolved(m, event) IN
    val.kind = "string" /\ MatchString(m.Pattern, val.v)

RuleMatches(cr, event) ==
    \A k \in 1..Len(cr.Matches) : EntryMatches(cr.Matches[k], event)

MatchingRules == {i \in 1..Len(cc.Rules) : RuleMatches(cc.Rules[i], evt)}

FirstMatching == CHOOSE i \in MatchingRules : \A j \in MatchingRules : i <= j

\* C2: EvalRules drops iff some rule matches the record; the reported name is
\* that of the first matching rule in declared order, and Eval is called on
\* the rules up to that one and on no later rule.
C2_EvalRulesFirstMatch ==
    lastCall.op = "EvalRules" =>
        /\ lastCall.out.err = "nil"
        /\ lastCall.out.match <=> MatchingRules # {}
        /\ lastCall.out.match =>
              /\ lastCall.out.dropEvent.RuleName = cc.Rules[FirstMatching].Name
              /\ lastCall.out.evals = [i \in 1..FirstMatching |-> i]
        /\ ~lastCall.out.match =>
              lastCall.out.evals = [i \in 1..Len(cc.Rules) |-> i]

C2_Witness ==
    /\ lastCall.op = "EvalRules"
    /\ Len(cc.Rules) = 2
    /\ MatchingRules = {1, 2}
    /\ lastCall.out.match

\* C3: CachedRule.Eval matches iff every match entry resolves to a string its
\* pattern matches; an absent field or a non-string value makes the rule not
\* match, with no error and an empty rule name.
C3_EvalAllEntriesStringMatch ==
    lastCall.op = "Eval" =>
        LET cr == cc.Rules[lastCall.rule] IN
        /\ lastCall.out.match <=> RuleMatches(cr, evt)
        /\ lastCall.out.err = "nil"
        /\ lastCall.out.match => lastCall.out.dropEvent.RuleName = cr.Name
        /\ ~lastCall.out.match => lastCall.out.dropEvent.RuleName = ""

C3_Witness ==
    /\ lastCall.op = "Eval"
    /\ LET cr == cc.Rules[lastCall.rule] IN
       /\ Len(cr.Matches) = 2
       /\ EntryMatches(cr.Matches[1], evt)
       /\ Resolved(cr.Matches[2], evt).kind \in {"number", "nil", "array"}
    /\ ~lastCall.out.match
    /\ lastCall.out.dropEvent.RuleName = ""

\* C4: FieldExists returns (true, v) iff the walk over the path's segments
\* ends at a present value v that is not a mapping, and (false, nil) when a
\* segment is missing, when a non-final value is not a mapping, and when the
\* final value is a mapping.
C4_FieldExistsWalk ==
    lastCall.op = "FieldExists" =>
        LET segs == lastCall.segs
            last == Walk(evt, segs, Len(segs))
        IN IF last.kind \notin {"missing", "map"}
           THEN lastCall.out = [exists |-> TRUE, val |-> last]
           ELSE lastCall.out = NotFound

C4_Witness ==
    /\ lastCall.op = "FieldExists"
    /\ Len(lastCall.segs) = 3
    /\ lastCall.out.exists
    /\ lastCall.out.val = JString(KmsSource)

(***************************************************************************)
(* The claims on FilterRecords and processFileWithCachedRules.             *)
(***************************************************************************)
Decodable(bytes) == ViewOf(bytes).kind = "map"

\* A record is kept when its bytes decode to a mapping no rule matches.
Keep(bytes) ==
    /\ Decodable(bytes)
    /\ \A i \in 1..Len(cc.Rules) : ~RuleMatches(cc.Rules[i], ViewOf(bytes).v)

\* C1: FilterRecords returns exactly the input records whose evaluation is
\* KEEP, as the input's own bytes and in input order, whatever the batches;
\* while it runs, its output is that of the records handled so far.
C1_FilterRecordsKeepsExactly ==
    /\ pc = "loop" =>
          outct = SelectSeq(SubSeq(inct, 1, Min(fj, Len(inct))), Keep)
    /\ filterRet.ct = "ok" =>
          /\ \A k \in 1..Len(inct) : Decodable(inct[k])
          /\ filterRet.Records = SelectSeq(inct, Keep)
          /\ (\A k \in 1..Len(inct) : Keep(inct[k])) => filterRet.Records = inct

C1_Witness ==
    /\ filterRet.ct = "ok"
    /\ Len(inct) > batchSize
    /\ Len(filterRet.Records) = Len(inct) - 1
    /\ \E k \in 1..Len(filterRet.Records) : filterRet.Records[k] = RecEc2Spaced.bytes

\* C5: processFileWithCachedRules returns nil only when Upload returned no
\* error and the encoder goroutine signalled done with uploadJob.Error unset;
\* every other outcome is a non-nil error.
C5_NilOnlyOnFullSuccess ==
    /\ pc = "done" =>
          (ret = "nil" <=>
              (uploadErr = "nil" /\ joined = "done" /\ ujError = "nil"))
    /\ ret = "nil" => (gpc = "exit" /\ pwClosed /\ filterRet.ct = "ok")
    /\ pc # "done" => ret = "none"

C5_Witness ==
    /\ pc = "done"
    /\ ret = "nil"
    /\ Len(filterRet.Records) > 0

EncoderBlockedOnPipe == gpc \in {"encode", "gzclose"} /\ pipePending

\* C6: when Upload has returned an error without reading the whole pipe, no
\* encoder goroutine is left blocked in a pipe Write once
\* processFileWithCachedRules has returned.
C6_NoEncoderBlockedAfterReturn ==
    (pc = "done" /\ uploadErr = "upload failed") => ~EncoderBlockedOnPipe

\* C7: processFileWithCachedRules returns, once the pipeline has started,
\* only after Upload has returned and then only once the goroutine's done has
\* been received or the 30 second timer has fired; the timer's case returns
\* an error.
C7_ReturnAfterUploadAndJoin ==
    /\ (pc = "done" /\ gpc # "none") =>
          /\ uploadErr # "pending"
          /\ joined \in {"done", "timeout"}
          /\ joined = "timeout" => ret = "upload goroutine timeout"
    /\ pc = "check" => (uploadErr # "pending" /\ joined = "done")
    /\ joined = "done" => (gpc = "exit" /\ pwClosed)
    /\ pc \in {"upload", "select"} => joined = "no"

C7_Witness ==
    /\ pc = "done"
    /\ joined = "timeout"
    /\ uploadErr = "nil"
    /\ ret = "upload goroutine timeout"

(***************************************************************************)
(* The claims on ProcessStream and ProcessBatch.                           *)
(***************************************************************************)
\* The buffer handed to processRecord does not decode to a mapping.
Undecodable(buf) == Unmarshal(buf, EmptyMap).err # "nil"

\* C8: a record that cannot be decoded is fatal on the streaming path too:
\* once ProcessStream has handed processRecord a buffer that does not decode,
\* it does not return nil.
C8_StreamDecodeErrorIsFatal ==
    (spc = "done" /\ \E i \in 1..Len(emitted) : Undecodable(emitted[i]))
        => sret # "nil"

\* C9: when ProcessBatch returns without error, its output is the kept
\* records of the input in the input's order, however the batch goroutines
\* interleave.
C9_BatchKeepsInputOrder ==
    (bpc = "done" /\ bret = "nil") => batchOutput = SelectSeq(batchInput, Keep)

\* The line feeds of a record never reach the buffer: the scanner drops them.
WithoutLineFeeds(bytes) == SelectSeq(bytes, LAMBDA b : b # "\n")

\* A brace stands inside a string literal of the record.
RECURSIVE BraceInStringFrom(_, _, _)
BraceInStringFrom(bytes, i, inString) ==
    IF i > Len(bytes) THEN FALSE
    ELSE IF bytes[i] = Quote THEN BraceInStringFrom(bytes, i + 1, ~inString)
    ELSE IF inString /\ bytes[i] \in {"{", "}"} THEN TRUE
    ELSE BraceInStringFrom(bytes, i + 1, inString)

BraceInString(bytes) == BraceInStringFrom(bytes, 1, FALSE)

C11_NothingEmittedAfterArrayEnd ==
    [][(foundRecords /\ ~inRecordsArray) => emitted' = emitted]_vars

\* A buffer handed to processRecord is kept when it decodes to a mapping no
\* rule matches.
KeptBuffer(buf) ==
    /\ ~Undecodable(buf)
    /\ \A i \in 1..Len(cc.Rules) :
          ~RuleMatches(cc.Rules[i], Unmarshal(buf, EmptyMap).rec)

\* C12: when ProcessStream returns nil, the bytes it has written are the
\* header, the kept records in order with one comma between neighbours, and
\* the footer.
C12_OutputIsHeaderRecordsFooter ==
    sret = "nil" =>
        output = Header \o JoinWith(SelectSeq(emitted, KeptBuffer), <<",">>) \o Footer

(***************************************************************************)
(* The claims on the regex cache and PrepareConfiguration.                 *)
(***************************************************************************)
\* C16: for any pattern text all successful getOrCompileRegex calls return
\* the same compiled object, an entry once stored is never replaced or
\* removed, and a pattern that fails to compile never enters the cache.
C16_OneObjectPerPattern ==
    /\ [](/\ \A x, y \in returned : x[1] = y[1] => x[2] = y[2]
          /\ \A x \in returned : x[1] \in DOMAIN patterns /\ patterns[x[1]] = x[2]
          /\ \A p \in DOMAIN patterns : Compiles(p))
    /\ [][\A p \in DOMAIN patterns :
             p \in DOMAIN patterns' /\ patterns'[p] = patterns[p]]_vars

\* Two goroutines missed the same pattern together, and both have returned
\* the one object stored for it; a failing pattern has left the cache alone.
C16_Witness ==
    /\ nextRe = 2
    /\ rg["g1"].pattern = "kms.*" /\ rg["g2"].pattern = "kms.*"
    /\ rg["g1"].pc = "idle" /\ rg["g2"].pc = "idle"
    /\ regexCalls["g1"] = 2 /\ regexCalls["g2"] = 1
    /\ rg["g1"].err = "nil" /\ rg["g2"].err = "nil"
    /\ rg["g1"].re = rg["g2"].re

\* C17: for a configuration that validates, PrepareConfiguration succeeds
\* and the compiled set has the same rules in the same order: as many, each
\* with the source rule's name and, match by match, its field names.
C17_PrepareKeepsRules ==
    (validOut = "nil" /\ prepOut # NotCalled) =>
        /\ prepOut.err = "nil"
        /\ Len(prepOut.cfg.Rules) = Len(srcCfg.Rules)
        /\ \A i \in 1..Len(srcCfg.Rules) :
              /\ prepOut.cfg.Rules[i].Name = srcCfg.Rules[i].Name
              /\ Len(prepOut.cfg.Rules[i].Matches) = Len(srcCfg.Rules[i].Matches)
              /\ \A j \in 1..Len(srcCfg.Rules[i].Matches) :
                    prepOut.cfg.Rules[i].Matches[j].FieldName
                        = srcCfg.Rules[i].Matches[j].FieldName

C17_Witness ==
    /\ validOut = "nil"
    /\ prepOut # NotCalled
    /\ Len(srcCfg.Rules) = MaxRules
    /\ srcCfg.Rules[1].Name = "check_nested"
    /\ srcCfg.Rules[2].Name = "check_none"
    /\ prepOut.cfg.Rules[1].Matches[2].FieldName = Join(<<"userIdentity", "eventSource">>)

(***************************************************************************)
(* The claims on CachedConfigLoader.                                       *)
(***************************************************************************)
\* A snapshot has been published and is younger than ttl.
SnapshotFresh == lastOk.id # 0 /\ now - lastOk.end < ttl

CompiledFormOf(cfg) ==
    [Rules |->
        [i \in 1..Len(cfg.Rules) |->
            [Name |-> cfg.Rules[i].Name,
             Matches |->
                [j \in 1..Len(cfg.Rules[i].Matches) |->
                    [FieldName |-> cfg.Rules[i].Matches[j].FieldName,
                     Pattern |-> cfg.Rules[i].Matches[j].Regex]]]]]

\* C14: config and cachedRules are both unset or cachedRules is the compiled
\* form of config; Load returns the configuration of a published snapshot;
\* LoadCached returns with a nil error the compiled rules of a published
\* snapshot, that of its Load or a later one, never nil.
C14_SnapshotConsistent ==
    /\ \/ lconfig = Nil /\ lcachedRules = Nil
       \/ /\ lconfig # Nil /\ lcachedRules # Nil
          /\ lcachedRules.of = lconfig.id
          /\ lconfig.id = lastOk.id
          /\ lcachedRules.cfg = CompiledFormOf(lconfig.cfg)
    /\ \A c \in LoadCallers :
          (lc[c].pc = "idle" /\ lc[c].err = "nil") =>
              /\ 1 <= lc[c].config /\ lc[c].config <= lastOk.id
              /\ lc[c].op = "LoadCached" =>
                    (lc[c].config <= lc[c].rules /\ lc[c].rules <= lastOk.id)

\* LoadCached has returned the rules of the refresh that ran between its Load
\* and its read.
C14_Witness ==
    /\ lc["c1"].pc = "idle"
    /\ lc["c1"].op = "LoadCached"
    /\ lc["c1"].err = "nil"
    /\ lc["c1"].config = 1
    /\ lc["c1"].rules = 2

\* C15: a Load whose refresh fails, in the underlying loader or in
\* PrepareConfiguration, returns the error and no configuration, and leaves
\* config, cachedRules and lastLoaded as they were.
C15_FailedRefreshKeepsSnapshot ==
    [][\A c \in LoadCallers :
          (lc[c].pc = "loading" /\ lc'[c].pc = "idle" /\ lc'[c].err # "nil") =>
              /\ lconfig' = lconfig
              /\ lcachedRules' = lcachedRules
              /\ lastLoaded' = lastLoaded
              /\ lc'[c].config = 0
              /\ lc'[c].err \in LoadErrors \cup {"failed to prepare cached rules"}]_vars

\* A refresh was cancelled and another failed to compile, and the snapshot of
\* the first load is still the published one.
C15_Witness ==
    /\ lconfig # Nil /\ lconfig.id = 1
    /\ lcachedRules.of = 1
    /\ loadCount = 3
    /\ lc["c1"].pc = "idle" /\ lc["c1"].err = "context canceled"
    /\ lc["c2"].pc = "idle" /\ lc["c2"].err = "failed to prepare cached rules"

(***************************************************************************)
(* The retry driver's claims, stated on the history of the call.           *)
(***************************************************************************)
IsFn(e) == e.ev = "fn"

\* The invocations of fn, in order.
Invocations == SelectSeq(rtrace, IsFn)

Exhausted(n, err) ==
    Errorf("operation failed after " \o ToString(n) \o " retries", err)

\* C18: with MaxRetries >= 0 and a context that is never cancelled, an
\* attempt that succeeds is the last thing the call does and the call returns
\* nil; when every attempt failed with a retryable error the call has invoked
\* fn MaxRetries+1 times, a back-off after each attempt but the last, and
\* returns "operation failed after MaxRetries retries" wrapping the error of
\* the last attempt.
C18_RetriesUntilSuccessOrExhaustion ==
    (rpc = "done" /\ rctx = "nil" /\ rcfg.MaxRetries >= 0) =>
        /\ \A i \in 1..Len(rtrace) :
              (IsFn(rtrace[i]) /\ rtrace[i].err = NoError) =>
                  i = Len(rtrace) /\ rret.err = NoError
        /\ (\A i \in 1..Len(Invocations) :
               /\ Invocations[i].err # NoError
               /\ RetryableError(rcfg, Invocations[i].err)) =>
              /\ Len(Invocations) = rcfg.MaxRetries + 1
              /\ Len(rtrace) = 2 * rcfg.MaxRetries + 1
              /\ \A i \in 1..Len(rtrace) :
                    rtrace[i].ev = IF i % 2 = 1 THEN "fn" ELSE "sleep"
              /\ rret.err = Exhausted(rcfg.MaxRetries,
                                      Invocations[Len(Invocations)].err)

\* Three attempts failed, the first and the last with different errors, and
\* the call gave up wrapping the last one.
C18_Witness ==
    /\ rpc = "done"
    /\ rctx = "nil"
    /\ rcfg.MaxRetries = 2
    /\ Len(Invocations) = 3
    /\ Invocations[1].err = New("temporary error")
    /\ Invocations[3].err = New("persistent error")
    /\ rret.err = Exhausted(2, New("persistent error"))

\* C19: an attempt failing with an error the RetryableError predicate
\* refuses is the last thing the call does, no back-off and no invocation
\* after it, and the call returns that error as fn gave it, with the zero
\* value of the result type.
C19_NonRetryableReturnedAsIs ==
    \A i \in 1..Len(rtrace) :
        (/\ IsFn(rtrace[i])
         /\ rtrace[i].err # NoError
         /\ ~RetryableError(rcfg, rtrace[i].err)) =>
            /\ i = Len(rtrace)
            /\ rpc = "done"
            /\ rret = [val |-> Zero, err |-> rtrace[i].err]

\* DoTyped retried once and then met the error that is not retryable.
C19_Witness ==
    /\ rop = "DoTyped"
    /\ rpc = "done"
    /\ rcfg.RetryableError = "notNonRetryable"
    /\ Len(rtrace) = 3
    /\ rtrace[1] = FnEvent([res |-> Value, err |-> New("temporary error")])
    /\ rtrace[2] = SleepEvent
    /\ rtrace[3] = FnEvent([res |-> Value, err |-> nonRetryableErr])
    /\ rret = [val |-> Zero, err |-> nonRetryableErr]

\* C20: once the context is done, the head of the loop returns an error
\* wrapping ctx.Err() and the back-off either returns one or hands over to the
\* head of the loop, in both cases without an invocation of fn; a call whose
\* context was cancelled during the first back-off, or between it and the
\* select at the head of the loop, has invoked fn exactly once and returns an
\* error wrapping ctx.Err().
C20_CancellationStopsRetries ==
    /\ [](( /\ rpc = "done"
            /\ Len(rtrace) >= 3
            /\ IsFn(rtrace[1])
            /\ rtrace[2] = SleepEvent
            /\ rtrace[3] \in {CancelEvent("sleep"), CancelEvent("loop")}) =>
              /\ Len(Invocations) = 1
              /\ rret.err.wraps = rctx
              /\ rret.err.msg \in {"context cancelled",
                                   "context cancelled during retry"})
    /\ [][(rctx # "nil" /\ rpc \in {"loop", "sleep"}
              /\ attempt <= rcfg.MaxRetries) =>
             /\ rtrace' = rtrace
             /\ \/ rpc' = "done" /\ rret'.err.wraps = rctx
                \/ rpc = "sleep" /\ rpc' = "loop"
                      /\ attempt' <= rcfg.MaxRetries]_vars

\* The context was cancelled during the first back-off and the call returned
\* from its select.
C20_Witness ==
    /\ rpc = "done"
    /\ rtrace = <<FnEvent([res |-> Zero, err |-> New("persistent error")]),
                  SleepEvent, CancelEvent("sleep")>>
    /\ rret.err = Errorf("context cancelled during retry", New("context canceled"))

\* The call was made without a WithRetryableError option.
NoRetryableErrorOption == \A k \in 1..Len(ropts) : ropts[k].opt # "WithRetryableError"

\* C21 as stated: in a call without a RetryableError option, an attempt that
\* fails with a text holding none of the transient substrings is the last
\* thing the call does.
C21_DefaultPredicateIsTextual ==
    NoRetryableErrorOption =>
        \A i \in 1..Len(rtrace) :
            (/\ IsFn(rtrace[i])
             /\ rtrace[i].err # NoError
             /\ ~IsRetryable(rtrace[i].err)) =>
                i = Len(rtrace) /\ rpc = "done"

\* C21: in a call without a RetryableError option every failed attempt but
\* the last one goes on to a back-off, whatever its text; the textual screen
\* decides only in a call given WithRetryableError(IsRetryable), where an
\* attempt failing with none of the transient substrings ends the call with
\* that error.
C21_DefaultRetriesEveryError ==
    \A i \in 1..Len(rtrace) :
        (IsFn(rtrace[i]) /\ rtrace[i].err # NoError) =>
            /\ (NoRetryableErrorOption /\ Len(SelectSeq(SubSeq(rtrace, 1, i), IsFn))
                                              <= rcfg.MaxRetries) =>
                   /\ Len(rtrace) > i
                   /\ rtrace[i + 1] = SleepEvent
            /\ (rcfg.RetryableError = "IsRetryable" /\ ~IsRetryable(rtrace[i].err)) =>
                   /\ i = Len(rtrace)
                   /\ rpc = "done"
                   /\ rret.err = rtrace[i].err

\* A call with no option at all retried "persistent error", which holds none
\* of the transient substrings.
C21_Witness ==
    /\ ropts = <<>>
    /\ Len(rtrace) >= 3
    /\ rtrace[1] = FnEvent([res |-> Zero, err |-> New("persistent error")])
    /\ ~IsRetryable(rtrace[1].err)
    /\ rtrace[2] = SleepEvent
    /\ IsFn(rtrace[3])

(***************************************************************************)
(* calculateDelay's claim.  The value without jitter is the fraction        *)
(* UnjitteredNum / UnjitteredDen of a nanosecond.                           *)
(***************************************************************************)
UnjitteredNum == args.cfg.BaseDelay * Pow(args.cfg.Multiplier, args.attempt)
UnjitteredDen == Pow(2, args.attempt)

\* C22: the delay never exceeds MaxDelay; without jitter it is the smaller of
\* MaxDelay and BaseDelay x Multiplier^attempt (in whole nanoseconds); with
\* jitter it is at least that value when that value is within the cap, and at
\* most the smaller of MaxDelay and 1.25 x BaseDelay x Multiplier^attempt.
C22_DelayWithinBounds ==
    retval.called =>
        /\ retval.delay <= args.cfg.MaxDelay
        /\ ~args.cfg.Jitter =>
               retval.delay = Min(args.cfg.MaxDelay, UnjitteredNum \div UnjitteredDen)
        /\ args.cfg.Jitter =>
               /\ UnjitteredNum <= args.cfg.MaxDelay * UnjitteredDen =>
                      retval.delay >= UnjitteredNum \div UnjitteredDen
               /\ 4 * retval.delay * UnjitteredDen <= 5 * UnjitteredNum

\* A jittered delay strictly between the plain value, 3 x 1.5 = 4.5, and the
\* cap.
C22_Witness ==
    /\ retval.called
    /\ args.cfg.Jitter
    /\ args.cfg.BaseDelay = 3 /\ args.cfg.Multiplier = 3 /\ args.attempt = 1
    /\ args.cfg.MaxDelay = 6
    /\ args.rand = 3
    /\ retval.delay = 5

(***************************************************************************)
(* The claims on VersionedConfiguration.Validate and Load.                 *)
(***************************************************************************)
Validated == retval.called /\ retval.op = "Validate"
Loaded == retval.called /\ retval.op = "Load"

\* C23: a configuration with no rules, the key absent or the list empty, is
\* rejected by Validate and by Load.
C23_NoRulesRejected ==
    (retval.called /\ Len(args.Rules) = 0) =>
        /\ retval.op = "Validate" => retval.validate # NoValidationError
        /\ retval.op = "Load" => retval.load.err # "nil"

\* The rules whose name occurred at a lower index.
Duplicates(vc) ==
    {i \in 1..Len(vc.Rules) : \E k \in 1..(i - 1) : vc.Rules[k].Name = vc.Rules[i].Name}

FirstDuplicate(vc) == CHOOSE i \in Duplicates(vc) : \A k \in Duplicates(vc) : i <= k

EarlierOccurrence(vc) ==
    CHOOSE k \in 1..(FirstDuplicate(vc) - 1) :
        vc.Rules[k].Name = vc.Rules[FirstDuplicate(vc)].Name

\* C24: Validate rejects a configuration in which two rules have the same
\* name with an error that has an entry for the first rule whose name
\* occurred before, giving the index of the earlier occurrence; and no
\* configuration that Load returns has two rules with the same name.
C24_FirstDuplicateNamed ==
    /\ (Validated /\ Duplicates(args) # {}) =>
           /\ retval.validate # NoValidationError
           /\ \E n \in 1..Len(retval.validate.errors) :
                  retval.validate.errors[n] =
                      ValidationError(
                          "rules" \o Idx(FirstDuplicate(args)) \o ".name",
                          args.Rules[FirstDuplicate(args)].Name,
                          "duplicate rule name (also at index "
                          \o ToString(EarlierOccurrence(args) - 1) \o ")")
    /\ (Loaded /\ retval.load.err = "nil") => Duplicates(retval.load.cfg) = {}

\* An entry of the returned error, of either form, that points at the path.
Reported(structPath, path) ==
    \/ \E e \in retval.validate.fieldErrors : e.Namespace = structPath
    \/ \E n \in 1..Len(retval.validate.errors) : retval.validate.errors[n].Field = path

\* C25: the error Validate returns has an entry for each violation of the
\* configuration: an invalid version, every rule with an empty match list, the
\* first duplicate rule name, every invalid field path; and every entry gives a
\* path, the rule's name and a message.
C25_EveryViolationReported ==
    Validated =>
        /\ ~ValidateSemver(args.Version) =>
               Reported("VersionedConfiguration.Version", "version")
        /\ \A i \in 1..Len(args.Rules) :
               /\ Len(args.Rules[i].Matches) = 0 =>
                      Reported("VersionedConfiguration.Rules" \o Idx(i) \o ".Matches",
                               "rules" \o Idx(i) \o ".matches")
               /\ \A j \in 1..Len(args.Rules[i].Matches) :
                      ~isValidFieldPath(args.Rules[i].Matches[j].FieldName) =>
                          Reported("VersionedConfiguration.Rules" \o Idx(i) \o ".Matches"
                                       \o Idx(j) \o ".FieldName",
                                   "rules" \o Idx(i) \o ".matches" \o Idx(j)
                                       \o ".field_name")
        /\ Duplicates(args) # {} =>
               Reported("VersionedConfiguration.Rules" \o Idx(FirstDuplicate(args))
                            \o ".Name",
                        "rules" \o Idx(FirstDuplicate(args)) \o ".name")

\* The segments of a path, cut at its dots, from byte i on.
RECURSIVE SegmentsFrom(_, _)
SegmentsFrom(path, i) ==
    LET dot == Span(path, i, Letters \cup Digits \cup {"_", "-", " "}) IN
    IF dot > Len(path) THEN <<SubSeq(path, i, Len(path))>>
    ELSE <<SubSeq(path, i, dot - 1)>> \o SegmentsFrom(path, dot + 1)

\* A segment matches [A-Za-z][A-Za-z0-9_-]*.
SegmentWellFormed(seg) ==
    /\ Len(seg) > 0
    /\ Char(seg, 1) \in Letters
    /\ \A i \in 2..Len(seg) : Char(seg, i) \in Letters \cup Digits \cup {"_", "-"}

PathWellFormed(path) ==
    /\ Len(path) > 0
    /\ \A n \in 1..Len(SegmentsFrom(path, 1)) : SegmentWellFormed(SegmentsFrom(path, 1)[n])

\* C26: isValidFieldPath accepts exactly the non-empty paths whose
\* dot-separated segments each match [A-Za-z][A-Za-z0-9_-]*, and the error of
\* Validate has an invalid-field-path entry for every match whose path is not
\* accepted.
C26_FieldPathSyntax ==
    Validated =>
        \A i \in 1..Len(args.Rules) : \A j \in 1..Len(args.Rules[i].Matches) :
            LET field == args.Rules[i].Matches[j].FieldName IN
            /\ isValidFieldPath(field) <=> PathWellFormed(field)
            /\ ~isValidFieldPath(field) =>
                   \E n \in 1..Len(retval.validate.errors) :
                       retval.validate.errors[n] =
                           ValidationError("rules" \o Idx(i) \o ".matches" \o Idx(j)
                                               \o ".field_name",
                                           args.Rules[i].Name,
                                           "invalid field path syntax: " \o field)

\* The pattern holds one of the listed shapes, as a literal occurrence.
HoldsListedShape(pattern) ==
    \E shape \in QuotedShapes :
        \E i \in 0..(Len(pattern) - Len(shape)) :
            SubSeq(pattern, i + 1, i + Len(shape)) = shape

\* The three conditions on a pattern.
WithinScreen(pattern) ==
    /\ Len(pattern) <= 1000
    /\ Compiles(pattern)
    /\ ~HoldsListedShape(pattern)

\* C27: ValidateIsRegex accepts a pattern exactly when it has at most 1000
\* bytes, compiles and holds none of the dangerous shapes, and every match
\* pattern of a configuration that Load returns meets the three conditions.
C27_RegexScreen ==
    /\ (retval.called /\ retval.op = "ValidateIsRegex") =>
           \A j \in 1..Len(args.Rules[1].Matches) :
               retval.accepted[j] <=> WithinScreen(args.Rules[1].Matches[j].Regex)
    /\ (Loaded /\ retval.load.err = "nil") =>
           \A i \in 1..Len(retval.load.cfg.Rules) :
               \A j \in 1..Len(retval.load.cfg.Rules[i].Matches) :
                   WithinScreen(retval.load.cfg.Rules[i].Matches[j].Regex)

\* C28: when the path of the filesystem loader contains "..", Load returns an
\* error and os.ReadFile was not called.
C28_DotDotRefusedUnread ==
    (retval.called /\ retval.op = "LocalConfigLoader.Load"
        /\ StringsContains(args.path, "..")) =>
            (retval.out.err # "nil" /\ retval.out.reads = <<>>)

\* The object is read as what it is, holds a well-formed document, and the
\* service returned it.
Sound(o, gz) == ~o.svcErr /\ o.wellFormed /\ (gz <=> o.compressed)

\* C29: the single-shot download fails on a document of more than 100 MiB and
\* accepts a sound one of at most 100 MiB; the multipart download fails on
\* more than 500 MiB and accepts a sound document of at most 500 MiB, one
\* between 100 MiB and 500 MiB included.
C29_SizeLimits ==
    /\ (retval.called /\ retval.op = "DownloadCloudtrail") =>
           /\ args.decodedSize > 100 * MiB => retval.err # "nil"
           /\ (Sound(args, args.ContentType = "application/x-gzip")
                  /\ args.decodedSize <= 100 * MiB) => retval.err = "nil"
    /\ (retval.called /\ retval.op = "DownloadCloudtrailMultiPart") =>
           /\ (args.decodedSize > 500 * MiB \/ args.downloadSize > 500 * MiB)
                  => retval.err # "nil"
           /\ (Sound(args, args.keySuffix = ".gz")
                  /\ args.decodedSize <= 500 * MiB
                  /\ args.downloadSize <= 500 * MiB) => retval.err = "nil"

\* C30: every read of rules by an invocation's evaluations, over all objects
\* and all retried attempts, is of the rule set its processor took when it
\* was created, whatever other invocations publish meanwhile, and no
\* evaluation reads two rule sets.
C30_OneSnapshotPerInvocation ==
    \A i \in Requests :
        /\ hd[i].seen # {} => (hd[i].created # NoProcessor /\ hd[i].seen = {hd[i].created})
        /\ Cardinality(hd[i].evalSeen) <= 1

\* An invocation evaluates a retried attempt on its second object against
\* the rule set of its processor after another invocation published a newer one.
C30_Witness ==
    \E i \in Requests :
        /\ hd[i].pc = "eval"
        /\ hd[i].obj = 2
        /\ hd[i].inner = 1
        /\ hd[i].outer = 1
        /\ hd[i].reads = 1
        /\ hd[i].created # NoProcessor
        /\ cachedRules > hd[i].created
        /\ hd[i].seen = {hd[i].created}

\* What FilterRecords decides for a record decoded into a map that holds
\* nothing: from the record's bytes and the rule set alone.
Decoded(raw) == Unmarshal(raw, EmptyMap).rec
DecisionOf(raw) ==
    LET e == EvalRules(cc, Decoded(raw))
    IN  [match |-> e.match, dropEvent |-> e.dropEvent]

\* C31: every map in the pool is empty; the decoded view of each record
\* holds the record's own members only; and each record is kept or dropped
\* as its bytes and the rule set alone decide, with calls sharing the pool.
C31_PooledMapsEmpty ==
    /\ \A m \in mapPool : DOMAIN m = {}
    /\ \A g \in DOMAIN fr :
           /\ \A k \in 1..Len(fr[g].views) :
                  fr[g].views[k] = Decoded(fr[g].Records[k])
           /\ fr[g].pc = "eval" => fr[g].rec = Decoded(fr[g].Records[fr[g].j + 1])
           /\ \A k \in 1..Len(fr[g].decisions) :
                  fr[g].decisions[k] = DecisionOf(fr[g].Records[k])

\* A call decoded the empty object into a map taken from the pool, after the
\* other call had dropped a kms record, and kept it.
C31_Witness ==
    /\ cc.Rules[1].Name = "check_kms"
    /\ fr["f1"].Records = <<RecKms.bytes>>
    /\ fr["f1"].pc = "done"
    /\ fr["f1"].decisions[1].match
    /\ fr["f2"].Records = <<RecEmpty>>
    /\ fr["f2"].reused
    /\ fr["f2"].decisions = <<[match |-> FALSE, dropEvent |-> Nil]>>
    /\ fr["f2"].pc = "done"

\* C32: IsRetryable is true exactly for a non-nil error whose text holds one
\* of the twelve patterns at some position, in the case they are written in;
\* and contains agrees with substring containment on every text and pattern.
C32_IsRetryableIsContainment ==
    /\ (retval.called /\ retval.op = "IsRetryable") =>
           (retval.result <=>
               /\ args.err # NoError
               /\ \E k \in 1..Len(retryablePatterns) :
                      StringsContains(args.err.msg, retryablePatterns[k]))
    /\ (retval.called /\ retval.op = "contains") =>
           \A k \in 1..Len(retryablePatterns) :
               retval.contains[k] <=> StringsContains(args.err.msg, retryablePatterns[k])

\* IsRetryable accepted a text that holds a pattern one byte after its start
\* and one byte before its end.
C32_Witness ==
    /\ retval.called
    /\ retval.op = "IsRetryable"
    /\ args.err = New("xThrottlingExceptiony")
    /\ retval.result

\* The metric datum m is in the buffer.
Buffered(m) == \E k \in 1..Len(cwmMetrics) : cwmMetrics[k] = m

\* C33: an addMetric that leaves 20 or more entries in the buffer starts an
\* auto-flush; no PutMetricData request carries more than 20 metric data;
\* and every recorded metric datum is either still in the buffer or was
\* copied by exactly one Flush call, and no datum is sent twice.
C33_FlushOncePerMetric ==
    /\ [](/\ maxBatch <= 20
          /\ \A m \in DOMAIN taken :
                 /\ taken[m] = (IF m < nextMetric /\ ~Buffered(m) THEN 1 ELSE 0)
                 /\ sent[m] <= taken[m])
    /\ [][(nextMetric' = nextMetric + 1 /\ Len(cwmMetrics') >= 20)
             => autoStarted' = autoStarted + 1]_vars

\* A handler's Flush has copied the first metric datum and has not sent it
\* yet; the twenty recorded since started an auto-flush, which copied them.
C33_Witness ==
    /\ autoStarted = 1
    /\ \E f \in flushing : f.src = "handler" /\ f.metricsToSend = <<1>> /\ f.i = 0
    /\ \E f \in flushing : f.src = "auto" /\ Len(f.metricsToSend) = 20
    /\ cwmMetrics = <<>>

\* C34: on every configuration that compiles and every decoded record, the
\* evaluator that compiles on demand and the compiled evaluator return the
\* same drop decision and the same rule name, a matched field holding a
\* non-string value included.
C34_EvaluatorsAgree ==
    retval.called =>
        LET u == ConfigurationEvalRules(args.cfg, args.evt)
            c == EvalRules(PrepareConfiguration(args.cfg, EmptyRegexCache).cfg, args.evt)
            other == IF retval.op = "Configuration.EvalRules" THEN c ELSE u
        IN /\ retval.match = other.match
           /\ retval.dropEvent = other.dropEvent

\* C35: in every interleaving of the initialization goroutine and the
\* invocations, Handler goes past initOnce.Do only when the body of
\* performAsyncInitialization has run to completion, and an invocation that
\* goes on to process its event has met no initialization error.
C35_HandlerWaitsForInit ==
    /\ hpc = "refresh" => bodyDone /\ globals.initError = "nil"
    /\ \A k \in 1..Len(handled) :
          handled[k].out # "initialization failed" =>
              handled[k].bodyDone /\ handled[k].initError = "nil"

\* The goroutine has ended by a panic inside UploadJob.Start.
PanickedInStart == gpc = "exit" /\ ~pwClosed

\* C36: once the encoder goroutine has panicked inside UploadJob.Start,
\* processFileWithCachedRules still returns in the end, with an error: Upload
\* is not left waiting for the pipe.
C36_PanicStillTerminates ==
    PanickedInStart ~> (pc = "done" /\ ret \notin {"none", "nil"})

\* C37: when Upload has failed, processFileWithCachedRules returns the
\* wrapped upload error, never the error of the join deadline, and the
\* deadline is not waited out.
C37_UploadErrorIsReturned ==
    (pc = "done" /\ uploadErr = "upload failed") =>
        /\ ret = "failed to upload file to output bucket"
        /\ joined # "timeout"

\* C38: ProcessStream processes as many records as the Records array of a
\* well-formed document holds, however the document is broken into lines:
\* all on one line, a record per line, a record over several lines, and the
\* array's opening bracket on a later line than the "Records" key.
C38_CountIndependentOfLines ==
    (spc = "done" /\ sret = "nil") => result.ProcessedCount = Len(doc.records)

\* C39: within one invocation the pipeline is attempted for a key at most
\* copyMaxRetries + 1 = 4 times, and a key whose copy has succeeded is not
\* copied again.
C39_RetriesDoNotMultiply ==
    \A k \in 1..nKeys :
        /\ nAttempts[k] <= copyMaxRetries + 1
        /\ nCopied[k] <= 1

\* The goroutine of batch k ended by reporting an error: it returned before
\* the end of its range.
ReportedError(k) == workers[k].at = "done" /\ workers[k].j < workers[k].end

\* A running goroutine whose next send would find its channel full.
SendWouldBlock(k) ==
    /\ workers[k].at = "run"
    /\ Len(results) >= ChanCap \/ Len(errors) >= ChanCap

\* C40: ProcessBatch returns in the end, for every input size and every
\* mix of evaluation errors and cancellation; no goroutine ever finds its
\* channel full; when it returns every goroutine has finished and the
\* channels are closed; and the error returned is non-nil exactly when a
\* batch reported one.
C40_BatchTerminatesCleanly ==
    /\ <>(bpc = "done")
    /\ [](\A k \in DOMAIN workers : ~SendWouldBlock(k))
    /\ [](bpc = "done" =>
            /\ chClosed
            /\ \A k \in DOMAIN workers : workers[k].at = "done"
            /\ bret # "nil" <=> \E k \in DOMAIN workers : ReportedError(k))

\* Three records in two batches, the context cancelled while the second
\* batch ran: one batch delivered its result, the other reported the
\* cancellation, and ProcessBatch returned it.
C40_Witness ==
    /\ bpc = "done"
    /\ Len(batchInput) = 3
    /\ bCancelled
    /\ ~ReportedError(1)
    /\ ReportedError(2)
    /\ bret = "context canceled"

====
